---- MODULE Spec2Model ----
(***************************************************************************)
(* A model of the timesheet package: DiffTime and DayLog (timestamps of    *)
(* one calendar day), the TimeAggregate strategies (day, week, month,      *)
(* year), the aggregation engine sum_DayLogs, and Timesheet (a dict of     *)
(* DayLogs persisted in a shelve store).                                   *)
(*                                                                         *)
(* Representation.                                                         *)
(*   - A timestamp handed to the package is a record [day, time]: `time`   *)
(*     is the time of day in ticks, `day` the calendar day of a            *)
(*     datetime.datetime (all stamps of a list of datetime.time objects    *)
(*     carry the same day).  A DiffTime is such a record on the dummy day  *)
(*     (DiffTime._dummy_date).                                             *)
(*   - A datetime.date is its proleptic Gregorian ordinal, as in           *)
(*     datetime.date.toordinal().                                          *)
(*   - A string is the sequence of its character codes.                    *)
(*   - A dict is the sequence of its items in insertion order.             *)
(*   - Durations are counted in ticks; a day has TicksPerDay ticks.        *)
(***************************************************************************)
EXTENDS Integers, Sequences, FiniteSets, TLC

VARIABLES
    daylog,     \* SpecDayLog: the DayLog object of the DayLog scenario;
                \* SpecRef: the heap of DayLog objects
    pair,       \* SpecAdd: the two DayLog operands of +;
                \* SpecRef: the two mappings the Timesheets are built from
    dlRes,      \* SpecDayLog, SpecAdd: the last DayLog operation and its outcome
    sheets,     \* Spec: the Timesheet instances; SpecWriters: the instance
                \* each process loaded
    store,      \* Spec: the shelve file, storage_name -> pickled Timesheet
    last,       \* Spec: the last Timesheet operation, its inputs and outcome;
                \* SpecWriters: the position of each process
    sumIn,      \* SpecSum, SpecWalk: the arguments of sum_DayLogs
    sumOut,     \* SpecSum: the summary returned by sum_DayLogs and the rows
                \* written; SpecWalk: the local variables of sum_DayLogs
    aggIn,      \* SpecAgg: the aggregate and the date handed to it
    aggOut      \* SpecAgg: the last strategy function applied and its value

dayLogVars == <<daylog, pair, dlRes>>
sheetVars == <<sheets, store, last>>
sumVars == <<sumIn, sumOut, aggIn, aggOut>>
vars == <<daylog, pair, dlRes, sheets, store, last, sumIn, sumOut, aggIn, aggOut>>

-----------------------------------------------------------------------------
(* Bounds of the model.                                                    *)

\* Times of day are 0..MaxTime ticks.
MaxTime == 3
\* Longest list of timestamps handed to one call.
MaxLen == 2
\* Calendar days a datetime.datetime stamp may carry; bare times carry 0.
StampDays == {0, 1}

TicksPerDay == MaxTime + 1

-----------------------------------------------------------------------------
(* Sequences, strings.                                                     *)

Range(s) == {s[i] : i \in 1..Len(s)}

\* All sequences over S of length at most n.
SeqsUpTo(S, n) == UNION {[1..k -> S] : k \in 0..n}

RECURSIVE SumSeq(_)
SumSeq(s) == IF s = <<>> THEN 0 ELSE Head(s) + SumSeq(Tail(s))

\* Python's str comparison: lexicographic on code points, a proper prefix first.
RECURSIVE StrLess(_, _)
StrLess(s, t) ==
    IF t = <<>> THEN FALSE
    ELSE IF s = <<>> THEN TRUE
    ELSE IF Head(s) # Head(t) THEN Head(s) < Head(t)
    ELSE StrLess(Tail(s), Tail(t))

\* The decimal digits of n >= 0 as character codes ('0' is 48), no padding.
RECURSIVE Digits(_)
Digits(n) == IF n < 10 THEN <<48 + n>> ELSE Append(Digits(n \div 10), 48 + (n % 10))

\* n zero-padded to at least `width` characters, as strftime's %m, %d, %W, %Y do.
RECURSIVE Padded(_, _)
Padded(n, width) ==
    LET d == Digits(n) IN
    IF Len(d) >= width THEN d ELSE <<48>> \o Padded(n, width - 1)

\* int() of a string of decimal digits.
RECURSIVE ParseInt(_)
ParseInt(s) ==
    IF s = <<>> THEN 0 ELSE 10 * ParseInt(SubSeq(s, 1, Len(s) - 1)) + (s[Len(s)] - 48)

-----------------------------------------------------------------------------
(* datetime.date: proleptic Gregorian calendar.                            *)

is_leap(y) == y % 4 = 0 /\ (y % 100 # 0 \/ y % 400 = 0)

days_before_year(y) ==
    (y - 1) * 365 + ((y - 1) \div 4) - ((y - 1) \div 100) + ((y - 1) \div 400)

days_in_month(y, m) ==
    IF m = 2 THEN (IF is_leap(y) THEN 29 ELSE 28)
    ELSE IF m \in {4, 6, 9, 11} THEN 30 ELSE 31

\* Days of a common year before the first of each month.
DaysBeforeMonth == <<0, 31, 59, 90, 120, 151, 181, 212, 243, 273, 304, 334>>

days_before_month(y, m) ==
    DaysBeforeMonth[m] + (IF m > 2 /\ is_leap(y) THEN 1 ELSE 0)

\* datetime.date(year, month, day), as its ordinal.
date(y, m, d) == days_before_year(y) + days_before_month(y, m) + d

\* Year, month and day of the date with ordinal n, found as datetime's
\* _ord2ymd finds them: the year, the day k of the year counted from 0, the
\* month from an estimate that is at most one too high.
year_of(n) ==
    CHOOSE y \in ((((n - 1) * 400) \div 146097))..((((n - 1) * 400) \div 146097) + 2) :
        days_before_year(y) < n /\ n <= days_before_year(y + 1)

month_of(y, k) ==
    IF days_before_month(y, (k + 50) \div 32) > k
    THEN ((k + 50) \div 32) - 1
    ELSE (k + 50) \div 32

ymd_in_month(y, k, m) == [year |-> y, month |-> m, day |-> k - days_before_month(y, m) + 1]
ymd_in_year(y, k) == ymd_in_month(y, k, month_of(y, k))
ymd_of(n, y) == ymd_in_year(y, n - days_before_year(y) - 1)
ymd(n) == ymd_of(n, year_of(n))

date_year(n) == ymd(n).year
date_month(n) == ymd(n).month
date_day(n) == ymd(n).day

\* date.weekday(): Monday is 0.
weekday(n) == (n + 6) % 7

\* date.isocalendar()[2]: Monday is 1.
iso_weekday(n) == weekday(n) + 1

\* Day of the year, from 0 (tm_yday).
year_day(n) == n - days_before_year(year_of(n)) - 1

\* strftime's %W: week of the year, weeks starting on Monday, the days before
\* the year's first Monday in week 0.
week_of_year(n) == (year_day(n) + 7 - weekday(n)) \div 7

\* datetime.date.isoformat / strftime("%Y-%m-%d").
format_ymd(d) ==
    Padded(d.year, 4) \o <<45>> \o Padded(d.month, 2) \o <<45>> \o Padded(d.day, 2)
isoformat(n) == format_ymd(ymd(n))

\* datetime.date.fromisoformat on a string YYYY-MM-DD.
fromisoformat(s) ==
    date(ParseInt(SubSeq(s, 1, 4)), ParseInt(SubSeq(s, 6, 7)), ParseInt(SubSeq(s, 9, 10)))

\* datetime.date.today(): the day the program runs.
Today == date(2022, 6, 29)

-----------------------------------------------------------------------------
(* DiffTime.                                                               *)

\* year=1, month=1, day=1 of DiffTime._dummy_date: the day every DiffTime is on.
DummyDay == 0

Stamp == [day : StampDays, time : 0..MaxTime]

\* x > y of datetime.datetime and of datetime.time: by day, then by time of day.
Later(x, y) == x.day > y.day \/ (x.day = y.day /\ x.time > y.time)

\* x <= y.
NotLater(x, y) == ~Later(x, y)

\* DiffTime.from_time: the time-of-day fields are copied, the date is dropped.
from_time(x) == [day |-> DummyDay, time |-> x.time]

\* datetime.timedelta: normalised so that 0 <= ticks < TicksPerDay.
timedelta(ticks) == [days |-> ticks \div TicksPerDay, ticks |-> ticks % TicksPerDay]

timedelta_add(x, y) == timedelta((x.days + y.days) * TicksPerDay + x.ticks + y.ticks)

\* DiffTime.__sub__: both operands projected on the dummy date, then subtracted.
DiffTimeSub(x, y) ==
    timedelta((DummyDay * TicksPerDay + x.time) - (DummyDay * TicksPerDay + y.time))

-----------------------------------------------------------------------------
(* DayLog.                                                                 *)

\* date=None.
NoDate == 0

\* utils.handle_date_arg with allow_None=True: None becomes the default.
handle_date_arg(d, default) == IF d = NoDate THEN default ELSE d

\* DayLog._validate_timestamp_sequence: timestamps[i + 1] > timestamps[i] for all i.
validate_timestamp_sequence(timestamps) ==
    \A i \in 1..(Len(timestamps) - 1) : Later(timestamps[i + 1], timestamps[i])

\* DayLog.convert_to_DiffTime.
convert_to_DiffTime(timestamps) ==
    [i \in 1..Len(timestamps) |-> from_time(timestamps[i])]

NoLog == [date |-> NoDate, timestamps |-> <<>>]

\* What a call returns: ok = FALSE when it raised ValueError.
Raised == [ok |-> FALSE, log |-> NoLog]
Returned(log) == [ok |-> TRUE, log |-> log]

\* DayLog.__init__: the sequence is validated as handed in, then converted.
DayLogInit(d, timestamps) ==
    IF ~validate_timestamp_sequence(timestamps) THEN Raised
    ELSE Returned([date |-> handle_date_arg(d, Today),
                   timestamps |-> convert_to_DiffTime(timestamps)])

\* concat_timestamps that does nothing when handed no timestamps.
DayLogConcat_skip_empty(self, timestamps, now) ==
    LET converted == convert_to_DiffTime(timestamps)
    IN  IF ~validate_timestamp_sequence(converted) THEN Raised
        ELSE IF Len(self.timestamps) > 0 /\ Len(converted) > 0
                /\ NotLater(converted[1], self.timestamps[Len(self.timestamps)])
             THEN Raised
        ELSE Returned([self EXCEPT !.timestamps = self.timestamps \o converted])

\* DayLog.concat_timestamps; `now` is datetime.datetime.today().
DayLogConcat(self, timestamps, now) ==
    LET converted == convert_to_DiffTime(IF Len(timestamps) = 0 THEN <<now>> ELSE timestamps)
    IN  IF ~validate_timestamp_sequence(converted) THEN Raised
        ELSE IF Len(self.timestamps) > 0
                /\ NotLater(converted[1], self.timestamps[Len(self.timestamps)])
             THEN Raised
        ELSE Returned([self EXCEPT !.timestamps = self.timestamps \o converted])

\* DayLog.copy.
DayLogCopy(self) == DayLogInit(self.date, self.timestamps)

\* DayLogAdd without the branch that puts other's timestamps first.
DayLogAdd_no_swap(self, other) ==
    LET s == self.timestamps
        o == other.timestamps
    IN  IF self.date # other.date THEN Raised
        ELSE IF Len(s) = 0 \/ Len(o) = 0
                \/ (NotLater(s[1], s[Len(s)]) /\ Later(o[1], s[Len(s)]))
             THEN DayLogInit(self.date, s \o o)
        ELSE Raised

\* DayLog.__add__.
DayLogAdd(self, other) ==
    LET s == self.timestamps
        o == other.timestamps
    IN  IF self.date # other.date THEN Raised
        ELSE IF Len(s) = 0 \/ Len(o) = 0
                \/ (NotLater(s[1], s[Len(s)]) /\ Later(o[1], s[Len(s)]))
             THEN DayLogInit(self.date, s \o o)
        ELSE IF NotLater(o[1], o[Len(o)]) /\ Later(s[1], o[Len(o)])
             THEN DayLogInit(self.date, o \o s)
        ELSE Raised

\* range(start, stop, step) with step > 0.
RECURSIVE py_range(_, _, _)
py_range(start, stop, step) ==
    IF start >= stop THEN <<>> ELSE <<start>> \o py_range(start + step, stop, step)

\* functools.reduce(lambda x, y: x + y, deltas) on a non-empty sequence.
RECURSIVE reduce_add(_)
reduce_add(deltas) ==
    IF Len(deltas) = 1 THEN deltas[1]
    ELSE timedelta_add(reduce_add(SubSeq(deltas, 1, Len(deltas) - 1)), deltas[Len(deltas)])

\* DayLog.convert_to_hours: every unit of the timedelta times its conversion.
convert_to_hours(delta) == delta.days * TicksPerDay + delta.ticks

\* sum_time_intervals stepping through every index instead of every other one.
sum_time_intervals_every_index(self) ==
    LET n == Len(self.timestamps)
        idx == py_range(1, n, 1)
        time == IF n < 2 THEN timedelta(0)
                ELSE reduce_add([k \in 1..Len(idx) |->
                        DiffTimeSub(self.timestamps[idx[k] + 1], self.timestamps[idx[k]])])
    IN  convert_to_hours(time)

\* DayLog.sum_time_intervals, in ticks. The 0-based index i of the code is i + 1 here.
sum_time_intervals(self) ==
    LET n == Len(self.timestamps)
        idx == py_range(1, n, 2)
        time == IF n < 2 THEN timedelta(0)
                ELSE reduce_add([k \in 1..Len(idx) |->
                        DiffTimeSub(self.timestamps[idx[k] + 1], self.timestamps[idx[k]])])
    IN  convert_to_hours(time)

-----------------------------------------------------------------------------
(* The DayLog scenario (SpecDayLog): one DayLog object, constructed anew,  *)
(* appended to and summed in any order.                                    *)

\* The day a DayLog of the scenarios may be constructed for, besides today.
OtherDay == date(2022, 6, 27)

StampLists == SeqsUpTo(Stamp, MaxLen)

NoRes == [op |-> "none", self |-> 0, other |-> 0, pre |-> NoLog,
          ok |-> TRUE, log |-> NoLog, hours |-> 0]

\* The value of a variable that a scenario does not use.
Idle == "idle"

InitDayLog ==
    /\ daylog = DayLogInit(NoDate, <<>>).log
    /\ dlRes = NoRes
    /\ pair = Idle
    /\ sheets = Idle /\ store = Idle /\ last = Idle
    /\ sumIn = Idle /\ sumOut = Idle /\ aggIn = Idle /\ aggOut = Idle

\* log = DayLog(date=d, timestamps=ts); the variable keeps its object when the
\* constructor raises.
Construct ==
    \E d \in {NoDate, OtherDay}, ts \in StampLists :
        LET r == DayLogInit(d, ts) IN
        /\ daylog' = IF r.ok THEN r.log ELSE daylog
        /\ dlRes' = [NoRes EXCEPT !.op = "init", !.pre = daylog, !.ok = r.ok, !.log = r.log]
        /\ UNCHANGED <<pair, sheetVars, sumVars>>

\* log.concat_timestamps(ts)
Concat ==
    \E ts \in StampLists :
        \E now \in IF ts = <<>> THEN Stamp ELSE {ts[1]} :
            LET r == DayLogConcat(daylog, ts, now) IN
            /\ daylog' = IF r.ok THEN r.log ELSE daylog
            /\ dlRes' = [NoRes EXCEPT !.op = "concat", !.pre = daylog, !.ok = r.ok,
                                      !.log = r.log]
            /\ UNCHANGED <<pair, sheetVars, sumVars>>

\* log.sum_time_intervals()
SumIntervals ==
    /\ dlRes' = [NoRes EXCEPT !.op = "sum", !.pre = daylog,
                              !.hours = sum_time_intervals(daylog)]
    /\ UNCHANGED <<daylog, pair, sheetVars, sumVars>>

NextDayLog ==
    \/ Construct
    \/ Concat
    \/ SumIntervals

SpecDayLog == InitDayLog /\ [][NextDayLog]_vars

-----------------------------------------------------------------------------
(* The addition scenario (SpecAdd): two DayLog objects, each as a          *)
(* constructor call leaves it, added in either order.                      *)

\* Every DayLog a constructor call with a list of at most MaxLen stamps returns.
Constructed ==
    {r.log : r \in {c \in {DayLogInit(d, ts) : d \in {NoDate, OtherDay}, ts \in StampLists} :
                        c.ok}}

InitAdd ==
    /\ pair \in [{1, 2} -> Constructed]
    /\ dlRes = NoRes
    /\ daylog = Idle
    /\ sheets = Idle /\ store = Idle /\ last = Idle
    /\ sumIn = Idle /\ sumOut = Idle /\ aggIn = Idle /\ aggOut = Idle

\* pair[i] + pair[j]
Add(i, j) ==
    LET r == DayLogAdd(pair[i], pair[j]) IN
    /\ dlRes' = [NoRes EXCEPT !.op = "add", !.self = i, !.other = j,
                              !.pre = pair[i], !.ok = r.ok, !.log = r.log]
    /\ UNCHANGED <<pair, daylog, sheetVars, sumVars>>

NextAdd == \E i \in {1, 2}, j \in {1, 2} : Add(i, j)

SpecAdd == InitAdd /\ [][NextAdd]_vars

-----------------------------------------------------------------------------
(* The call scenario (SpecCall): one DayLog object, as a constructor call  *)
(* leaves it, on which the constructor or concat_timestamps is called once *)
(* with any argument; the call's argument and outcome are recorded.        *)

\* The times datetime.datetime.today() may return.
Nows == {s \in Stamp : s.day = DummyDay}

NoCall == [op |-> "none", pre |-> NoLog, arg |-> <<>>, now |-> from_time([time |-> 0]),
           ok |-> TRUE, log |-> NoLog]

InitCall ==
    /\ daylog \in Constructed
    /\ dlRes = NoCall
    /\ pair = Idle
    /\ sheets = Idle /\ store = Idle /\ last = Idle
    /\ sumIn = Idle /\ sumOut = Idle /\ aggIn = Idle /\ aggOut = Idle

\* log = DayLog(date=d, timestamps=ts); the variable keeps its object when the
\* constructor raises.
ConstructCall ==
    /\ dlRes.op = "none"
    /\ \E d \in {NoDate, OtherDay}, ts \in StampLists :
        \E r \in {DayLogInit(d, ts)} :
            /\ daylog' = IF r.ok THEN r.log ELSE daylog
            /\ dlRes' = [NoCall EXCEPT !.op = "init", !.pre = daylog, !.arg = ts,
                                       !.ok = r.ok, !.log = r.log]
    /\ UNCHANGED <<pair, sheetVars, sumVars>>

\* log.concat_timestamps(ts); with ts empty or omitted the call reads the clock.
ConcatCall ==
    /\ dlRes.op = "none"
    /\ \E ts \in StampLists :
        \E now \in IF ts = <<>> THEN Nows ELSE {NoCall.now} :
            \E r \in {DayLogConcat(daylog, ts, now)} :
                /\ daylog' = IF r.ok THEN r.log ELSE daylog
                /\ dlRes' = [NoCall EXCEPT !.op = "concat", !.pre = daylog, !.arg = ts,
                                           !.now = now, !.ok = r.ok, !.log = r.log]
    /\ UNCHANGED <<pair, sheetVars, sumVars>>

NextCall ==
    \/ ConstructCall
    \/ ConcatCall

SpecCall == InitCall /\ [][NextCall]_vars

-----------------------------------------------------------------------------
(* Timesheet: a dict of DayLogs under ISO date keys, saved in a shelve     *)
(* store under a storage name.  A Timesheet is a record                    *)
(* [record, storage_name]; the store is the set of its (name, sheet)       *)
(* entries.                                                                *)

\* self.__class__.__name__.lower(): "timesheet"
TimesheetStem == <<116, 105, 109, 101, 115, 104, 101, 101, 116>>

IsDigit(c) == c \in 48..57

\* The longest prefix of s made of decimal digits: what (\d+) captures.
RECURSIVE LeadingDigits(_)
LeadingDigits(s) ==
    IF s = <<>> \/ ~IsDigit(Head(s)) THEN <<>>
    ELSE <<Head(s)>> \o LeadingDigits(Tail(s))

\* re.match(stem + r"(\d+)\.?.*$", name).group(1), or <<>> when nothing matches.
match_number(stem, name) ==
    IF Len(name) > Len(stem) /\ SubSeq(name, 1, Len(stem)) = stem
    THEN LeadingDigits(SubSeq(name, Len(stem) + 1, Len(name)))
    ELSE <<>>

SetMax(S) == CHOOSE x \in S : \A y \in S : y <= x
SetMin(S) == CHOOSE x \in S : \A y \in S : x <= y

\* next_number that counts the names instead of reading their numbers.
next_number_by_count(stem, names) == Cardinality(names) + 1

next_number(stem, names) ==
    IF names = {} THEN 1
    ELSE SetMax({0} \cup {ParseInt(match_number(stem, n)) :
                            n \in {x \in names : match_number(stem, x) # <<>>}}) + 1

default_name(names) == TimesheetStem \o Digits(next_number(TimesheetStem, names))

\* dict helpers on a sequence of [key, log] items.
Keys(record) == {record[i].key : i \in 1..Len(record)}
Lookup(record, key) == (CHOOSE i \in 1..Len(record) : record[i].key = key)
Get(record, key) == record[Lookup(record, key)].log

\* sorted(keys, key=lambda k: datetime.date.fromisoformat(k))
RECURSIVE sorted_by_date(_)
sorted_by_date(keys) ==
    IF keys = {} THEN <<>>
    ELSE LET first == CHOOSE k \in keys :
                        \A other \in keys : fromisoformat(k) <= fromisoformat(other)
         IN  <<first>> \o sorted_by_date(keys \ {first})

\* The keys of the shelve file.
StoreNames(st) == {e.name : e \in st}

\* A write that leaves only the written entry in the file.
StorePut_alone(st, name, sheet) == {[name |-> name, sheet |-> sheet]}

\* f[storage_name] = self
StorePut(st, name, sheet) ==
    {e \in st : e.name # name} \cup {[name |-> name, sheet |-> sheet]}

\* What the person at an interactive prompt does; "batch" when the interpreter
\* is not interactive.
Answers == {"batch", "enter", "abort"}

\* save that writes whatever the store holds.
TimesheetSave_unprotected(self, st, overwrite, answer) == StorePut(st, self.storage_name, self)

\* Timesheet.save(overwrite=overwrite) under the instance's own name: the
\* store afterwards.
TimesheetSave(self, st, overwrite, answer) ==
    IF ~overwrite /\ self.storage_name \in StoreNames(st) /\ answer # "enter"
    THEN st
    ELSE StorePut(st, self.storage_name, self)

\* data=None, storage_name=None
NoData == <<[key |-> <<>>, log |-> NoLog]>>
NoName == <<>>
NoSheet == [record |-> <<>>, storage_name |-> NoName]

\* The outcome of a Timesheet method: whether it returned, and the instance
\* and the store as the call leaves them.
Outcome(ok, sheet, st) == [ok |-> ok, sheet |-> sheet, store |-> st]

\* The end of Timesheet._constructor: the name is settled, save if asked to.
constructor_save(sheet, overwrite, save, st, answer) ==
    Outcome(TRUE, sheet, IF save THEN TimesheetSave(sheet, st, overwrite, answer) ELSE st)

\* Timesheet._constructor once the DayLogs are copied (key order: keys): ok is
\* FALSE when a copy raised, before anything is assigned.
constructor_assign(keys, copies, storage_name, save, st, answer) ==
    IF \E i \in 1..Len(keys) : ~copies[i].ok
    THEN Outcome(FALSE, NoSheet, st)
    ELSE constructor_save(
            [record |-> [i \in 1..Len(keys) |-> [key |-> keys[i], log |-> copies[i].log]],
             storage_name |-> IF storage_name = NoName THEN default_name(StoreNames(st))
                              ELSE storage_name],
            storage_name = NoName, save, st, answer)

constructor_copy(given, keys, storage_name, save, st, answer) ==
    constructor_assign(keys, [i \in 1..Len(keys) |-> DayLogCopy(Get(given, keys[i]))],
                       storage_name, save, st, answer)

constructor_sort(given, storage_name, save, st, answer) ==
    constructor_copy(given, sorted_by_date(Keys(given)), storage_name, save, st, answer)

\* Timesheet._constructor
TimesheetConstructor(data, storage_name, save, st, answer) ==
    constructor_sort(IF data = NoData
                     THEN <<[key |-> isoformat(Today), log |-> DayLogInit(NoDate, <<>>).log]>>
                     ELSE data,
                     storage_name, save, st, answer)

\* A set of items as a dict, in some iteration order.
RECURSIVE AsDict(_)
AsDict(items) ==
    IF items = {} THEN <<>>
    ELSE LET it == CHOOSE x \in items : TRUE IN <<it>> \o AsDict(items \ {it})

\* The dict Timesheet.merge hands to the constructor, given the sums of the
\* DayLogs under the common keys.
merged_data(self, other, sums) ==
    AsDict({[key |-> k,
             log |-> IF k \in Keys(self.record) THEN Get(self.record, k)
                     ELSE Get(other.record, k)] :
                k \in (Keys(self.record) \ Keys(other.record))
                        \cup (Keys(other.record) \ Keys(self.record))}
           \cup {[key |-> k, log |-> sums[k].log] :
                    k \in Keys(self.record) \cap Keys(other.record)})

\* The DayLog additions of Timesheet.merge, one for each common key.
merge_sums(self, other) ==
    [k \in Keys(self.record) \cap Keys(other.record) |->
        DayLogAdd(Get(self.record, k), Get(other.record, k))]

\* What a call leaves when the constructor it ends with raised: self as left.
or_raised(c, left, st) == IF c.ok THEN c ELSE Outcome(FALSE, left, st)

\* Timesheet.merge that takes its own DayLog under a common key.
merge_own_wins(self, other, sums, storage_name, save, st, answer) ==
    IF \E k \in DOMAIN sums : ~sums[k].ok THEN Outcome(FALSE, self, st)
    ELSE or_raised(TimesheetConstructor(
                     merged_data(self, other,
                                 [k \in DOMAIN sums |-> Returned(Get(self.record, k))]),
                     storage_name, save, st, answer),
                   self, st)

\* Timesheet.merge that takes over other's keys before it adds the DayLogs
\* under the common ones.
merge_in_place(self, grown, other, sums, storage_name, save, st, answer) ==
    IF \E k \in DOMAIN sums : ~sums[k].ok THEN Outcome(FALSE, grown, st)
    ELSE or_raised(TimesheetConstructor(merged_data(self, other, sums),
                                        storage_name, save, st, answer),
                   grown, st)

\* Timesheet.merge once the DayLogs under the common keys are added.
merge_construct(self, other, sums, storage_name, save, st, answer) ==
    IF \E k \in DOMAIN sums : ~sums[k].ok THEN Outcome(FALSE, self, st)
    ELSE or_raised(TimesheetConstructor(merged_data(self, other, sums),
                                        storage_name, save, st, answer),
                   self, st)

TimesheetMerge_own_wins(self, other, storage_name, save, st, answer) ==
    merge_own_wins(self, other, merge_sums(self, other), storage_name, save, st, answer)

TimesheetMerge_in_place(self, other, storage_name, save, st, answer) ==
    merge_in_place(self,
                   [self EXCEPT !.record =
                       self.record \o [i \in 1..Len(other.record) |-> other.record[i]]],
                   other, merge_sums(self, other), storage_name, save, st, answer)

\* self.merge(other, storage_name=storage_name, save=save)
TimesheetMerge(self, other, storage_name, save, st, answer) ==
    merge_construct(self, other, merge_sums(self, other), storage_name, save, st, answer)

\* A concat_timestamps that ends without saving.
concat_unsaved(sheet, st) == Outcome(TRUE, sheet, st)

\* The end of Timesheet.concat_timestamps: save(overwrite=True).
concat_save(sheet, st) == Outcome(TRUE, sheet, TimesheetSave(sheet, st, TRUE, "batch"))

\* Timesheet.concat_timestamps once the DayLog call r is made: the record
\* gets the DayLog under datestamp, at the end if the key is new.
concat_assign(self, datestamp, r, st) ==
    IF ~r.ok THEN Outcome(FALSE, self, st)
    ELSE concat_save(
            [self EXCEPT !.record =
                IF datestamp \in Keys(self.record)
                THEN [self.record EXCEPT ![Lookup(self.record, datestamp)].log = r.log]
                ELSE Append(self.record, [key |-> datestamp, log |-> r.log])],
            st)

concat_at(self, datestamp, ts, now, st) ==
    concat_assign(self, datestamp,
                  IF datestamp \in Keys(self.record)
                  THEN DayLogConcat(Get(self.record, datestamp), ts, now)
                  ELSE DayLogInit(NoDate, ts),
                  st)

\* self.concat_timestamps(date=d, timestamps=timestamps), d an ISO date string;
\* now is datetime.datetime.today().
TimesheetConcat(self, d, timestamps, now, st) ==
    concat_at(self, isoformat(handle_date_arg(fromisoformat(d), Today)),
              IF timestamps = <<>> THEN <<now>> ELSE timestamps, now, st)

\* The entry of the shelve file under a name that is among its keys.
Stored(st, name) == (CHOOSE e \in st : e.name = name).sheet

\* bool(f.get(storage_name)): None is false, and so is a Timesheet whose
\* __len__ is 0, one with an empty record.
StoredTruthy(st, name) == name \in StoreNames(st) /\ Len(Stored(st, name).record) > 0

\* What a call on the store gives: ok = FALSE when it raised (FileNotFoundError
\* or KeyError), and the store as the call leaves it.
StoreOutcome(ok, st) == [ok |-> ok, store |-> st]

\* Timesheet.delete(storage_name, storage_path, confirm), through
\* utils.use_shelve_file with func = f.pop(storage_name); exists tells whether
\* the shelve file is there.
TimesheetDelete(storage_name, confirm, st, exists, answer) ==
    IF ~exists THEN StoreOutcome(FALSE, st)
    ELSE IF ~StoredTruthy(st, storage_name) THEN StoreOutcome(FALSE, st)
    ELSE IF confirm /\ answer # "enter" THEN StoreOutcome(TRUE, st)
    ELSE StoreOutcome(TRUE, {e \in st : e.name # storage_name})

\* Timesheet.list(path), as far as its callers tell: FALSE when it raises
\* FileNotFoundError.
TimesheetListReturns(exists) == exists

\* Timesheet.list(path): the keys of the shelve file whose values are
\* Timesheets; ok = FALSE when it raises FileNotFoundError.
TimesheetList(st, exists) == [ok |-> exists, names |-> StoreNames(st)]

\* Timesheet.load(storage_name, storage_path), through utils.use_shelve_file
\* with func = f[storage_name]; ok = FALSE when it raises.
TimesheetLoad(storage_name, st, exists) ==
    IF ~exists \/ ~StoredTruthy(st, storage_name)
    THEN [ok |-> FALSE, sheet |-> NoSheet]
    ELSE [ok |-> TRUE, sheet |-> Stored(st, storage_name)]

\* Timesheet.equals: the same keys, and under each key equal timestamps.
TimesheetEquals(self, other) ==
    /\ Keys(self.record) = Keys(other.record)
    /\ \A k \in Keys(self.record) :
        Get(self.record, k).timestamps = Get(other.record, k).timestamps

\* The create command with no json_source: it returns 1 when the name is taken
\* and --overwrite is not given, and constructs a saved Timesheet otherwise.
\* The command line is never interactive.
create_command(storage_name, overwrite, st, exists) ==
    IF ~overwrite /\ storage_name # NoName /\ ~TimesheetListReturns(exists)
    THEN Outcome(FALSE, NoSheet, st)
    ELSE IF ~overwrite /\ storage_name # NoName /\ storage_name \in StoreNames(st)
    THEN Outcome(TRUE, NoSheet, st)
    ELSE TimesheetConstructor(NoData, storage_name, TRUE, st, "batch")


-----------------------------------------------------------------------------
(* The Timesheet scenario (Spec): two Timesheets created with no           *)
(* arguments, then up to MaxOps calls of concat_timestamps and merge.      *)

\* Number of Timesheet calls in one run.
MaxOps == 3
\* Times of day in the Timesheet scenarios are 0..MaxSheetTime ticks.
MaxSheetTime == 1

SheetIds == {1, 2}
SheetStamp == [day : StampDays, time : 0..MaxSheetTime]
SheetStampLists == SeqsUpTo(SheetStamp, MaxLen)

\* The date arguments of Timesheet.concat_timestamps.
DateArgs == {isoformat(OtherDay), isoformat(Today)}

NoOp == [op |-> "none", self |-> 0, other |-> 0, ok |-> TRUE, n |-> 0,
         sheets |-> <<>>, store |-> {}, reference |-> <<>>,
         date |-> <<>>, timestamps |-> <<>>]

\* a = Timesheet(); b = Timesheet()
Init ==
    \E a \in {TimesheetConstructor(NoData, NoName, TRUE, {}, "batch")} :
    \E b \in {TimesheetConstructor(NoData, NoName, TRUE, a.store, "batch")} :
        /\ sheets = <<a.sheet, b.sheet>>
        /\ store = b.store
        /\ last = NoOp
        /\ daylog = Idle /\ pair = Idle /\ dlRes = Idle
        /\ sumIn = Idle /\ sumOut = Idle /\ aggIn = Idle /\ aggOut = Idle

\* sheets[i].merge(sheets[j], storage_name=name, save=save)
DoMerge(i, j) ==
    \E save \in BOOLEAN, name \in {NoName, sheets[i].storage_name} :
        \E answer \in IF save /\ name # NoName THEN Answers ELSE {"batch"} :
            \E r \in {TimesheetMerge(sheets[i], sheets[j], name, save, store, answer)} :
            /\ sheets' = [sheets EXCEPT ![i] = r.sheet]
            /\ store' = r.store
            /\ last' = [NoOp EXCEPT !.op = "merge", !.self = i, !.other = j,
                                    !.ok = r.ok, !.n = last.n + 1,
                                    !.sheets = sheets, !.store = store]
            /\ UNCHANGED <<dayLogVars, sumVars>>

Merge(i, j) == last.n < MaxOps /\ DoMerge(i, j)

\* sheets[i].concat_timestamps(date=d, timestamps=ts)
ConcatTimestamps(i) ==
    /\ last.n < MaxOps
    /\ \E d \in DateArgs, ts \in SheetStampLists :
        \E now \in IF ts = <<>> THEN SheetStamp ELSE {ts[1]} :
            \E r \in {TimesheetConcat(sheets[i], d, ts, now, store)} :
            /\ sheets' = [sheets EXCEPT ![i] = r.sheet]
            /\ store' = r.store
            /\ last' = [NoOp EXCEPT !.op = "concat", !.self = i, !.ok = r.ok,
                                    !.n = last.n + 1,
                                    !.sheets = sheets, !.store = store,
                                    !.date = d, !.timestamps = ts]
            /\ UNCHANGED <<dayLogVars, sumVars>>

Next ==
    \/ \E i \in SheetIds, j \in SheetIds : Merge(i, j)
    \/ \E i \in SheetIds : ConcatTimestamps(i)

Spec == Init /\ [][Next]_vars

-----------------------------------------------------------------------------
(* The merge scenario (SpecMerge): either two saved Timesheets built from  *)
(* any data, one of which merges the other or itself; or the single-date   *)
(* Timesheets of one mapping, merged one after another as                  *)
(* test_sequential_merge does.                                             *)

EarlyDay == date(2022, 6, 1)

\* The DayLogs a caller can build for day d (or with no date) from a list of
\* stamps.
DataLogs(d) ==
    {c.log : c \in {r \in {DayLogInit(dd, ts) : dd \in {NoDate, d}, ts \in SheetStampLists} :
                        r.ok}}

\* The data dicts with keys among the given days (a sequence, earliest first),
\* a DayLog of DataLogs under each key.
RECURSIVE Mappings(_)
Mappings(days) ==
    IF days = <<>> THEN {<<>>}
    ELSE LET rest == Mappings(Tail(days))
         IN  rest \cup {<<[key |-> isoformat(Head(days)), log |-> l]>> \o r :
                            l \in DataLogs(Head(days)), r \in rest}

PairData == Mappings(<<OtherDay, Today>>)
SinglesData == Mappings(<<EarlyDay, OtherDay, Today>>)

\* a = Timesheet(d1); b = Timesheet(d2)
InitPair ==
    \E d1 \in PairData, d2 \in PairData :
        \E a \in {TimesheetConstructor(d1, NoName, TRUE, {}, "batch")} :
        \E b \in {TimesheetConstructor(d2, NoName, TRUE, a.store, "batch")} :
            /\ a.ok /\ b.ok
            /\ sheets = <<a.sheet, b.sheet>>
            /\ store = b.store
            /\ last = NoOp

\* reference = a mapping; timesheets = [Timesheet({k: v}, save=False) for k, v in reference]
InitSingles ==
    \E reference \in SinglesData :
        \E singles \in {[i \in 1..Len(reference) |->
                          TimesheetConstructor(<<reference[i]>>, NoName, FALSE, {}, "batch")]} :
            /\ Len(reference) > 0
            /\ \A i \in 1..Len(reference) : singles[i].ok
            /\ sheets = [i \in 1..Len(reference) |-> singles[i].sheet]
            /\ store = {}
            /\ last = [NoOp EXCEPT !.op = "singles", !.reference = reference]

InitMerge ==
    /\ InitPair \/ InitSingles
    /\ daylog = Idle /\ pair = Idle /\ dlRes = Idle
    /\ sumIn = Idle /\ sumOut = Idle /\ aggIn = Idle /\ aggOut = Idle

\* The one merge call of the first kind of run.
MergeOnce(i, j) == last.op = "none" /\ DoMerge(i, j)

\* timesheets[0] = timesheets[0].merge(timesheets.pop(1), save=False)
MergeNext ==
    /\ last.op \in {"singles", "sequential"}
    /\ Len(sheets) > 1
    /\ \E r \in {TimesheetMerge(sheets[1], sheets[2], NoName, FALSE, store, "batch")} :
        /\ sheets' = <<r.sheet>> \o SubSeq(sheets, 3, Len(sheets))
        /\ store' = r.store
        /\ last' = [last EXCEPT !.op = IF r.ok THEN "sequential" ELSE "aborted",
                                !.ok = r.ok, !.n = last.n + 1,
                                !.sheets = sheets, !.store = store]
    /\ UNCHANGED <<dayLogVars, sumVars>>

NextMerge ==
    \/ \E i \in SheetIds, j \in SheetIds : MergeOnce(i, j)
    \/ MergeNext

SpecMerge == InitMerge /\ [][NextMerge]_vars

-----------------------------------------------------------------------------
(* The store scenario (SpecStore): one shelve file, at first not there, on *)
(* which up to MaxStoreOps calls are made: Timesheets are constructed and  *)
(* saved, the create command is run, entries are deleted and loaded. sheets *)
(* holds the Timesheet constructed last.                                   *)

\* Number of calls on the store in one run.
MaxStoreOps == 3

\* "timesheet2" and "t": the storage names a caller passes.
StoreNameArgs == {TimesheetStem \o <<50>>, <<116>>}

\* data=None, data={} and a dict with one DayLog.
StoreData ==
    {NoData, <<>>,
     <<[key |-> isoformat(OtherDay),
        log |-> DayLogInit(OtherDay, <<from_time([time |-> 0])>>).log]>>}

NoStoreOp == [op |-> "none", n |-> 0, exists |-> FALSE, unnamed |-> TRUE, ok |-> TRUE,
              name |-> NoName, overwrite |-> FALSE, confirm |-> FALSE,
              answer |-> "batch", store |-> {}, loaded |-> NoSheet, listed |-> {}]

InitStore ==
    /\ sheets = <<>>
    /\ store = {}
    /\ last = NoStoreOp
    /\ daylog = Idle /\ pair = Idle /\ dlRes = Idle
    /\ sumIn = Idle /\ sumOut = Idle /\ aggIn = Idle /\ aggOut = Idle

\* Timesheet(data=data, storage_name=name, save=save)
StoreCreate ==
    /\ last.n < MaxStoreOps
    /\ \E data \in StoreData, name \in {NoName} \cup StoreNameArgs, save \in BOOLEAN :
        \E answer \in IF save /\ name # NoName THEN Answers ELSE {"batch"} :
            \E r \in {TimesheetConstructor(data, name, save, store, answer)} :
                /\ sheets' = IF r.ok THEN <<r.sheet>> ELSE sheets
                /\ store' = r.store
                /\ last' = [NoStoreOp EXCEPT !.op = "create", !.n = last.n + 1,
                                !.exists = last.exists \/ save,
                                !.unnamed = last.unnamed /\ name = NoName /\ save,
                                !.ok = r.ok, !.name = name, !.answer = answer,
                                !.store = store]
    /\ UNCHANGED <<dayLogVars, sumVars>>

\* sheets[1].save(overwrite=overwrite)
StoreSave ==
    /\ last.n < MaxStoreOps
    /\ sheets # <<>>
    /\ \E overwrite \in BOOLEAN :
        \E answer \in IF overwrite THEN {"batch"} ELSE Answers :
            /\ store' = TimesheetSave(sheets[1], store, overwrite, answer)
            /\ last' = [NoStoreOp EXCEPT !.op = "save", !.n = last.n + 1,
                            !.exists = TRUE, !.unnamed = FALSE,
                            !.name = sheets[1].storage_name, !.overwrite = overwrite,
                            !.answer = answer, !.store = store]
    /\ UNCHANGED <<sheets, dayLogVars, sumVars>>

\* timesheet create [--storage_name name] [--overwrite]
StoreCommand ==
    /\ last.n < MaxStoreOps
    /\ \E name \in {NoName} \cup StoreNameArgs, overwrite \in BOOLEAN :
        \E r \in {create_command(name, overwrite, store, last.exists)} :
            /\ store' = r.store
            /\ last' = [NoStoreOp EXCEPT !.op = "command", !.n = last.n + 1,
                            !.exists = last.exists \/ r.sheet # NoSheet,
                            !.unnamed = last.unnamed /\ name = NoName,
                            !.ok = r.ok, !.name = name, !.overwrite = overwrite,
                            !.store = store]
    /\ UNCHANGED <<sheets, dayLogVars, sumVars>>

\* Timesheet.delete(name, storage_path, confirm=confirm)
StoreDelete ==
    /\ last.n < MaxStoreOps
    /\ \E name \in StoreNameArgs \cup {default_name({})}, confirm \in BOOLEAN :
        \E answer \in IF confirm THEN Answers ELSE {"batch"} :
            \E r \in {TimesheetDelete(name, confirm, store, last.exists, answer)} :
                /\ store' = r.store
                /\ last' = [NoStoreOp EXCEPT !.op = "delete", !.n = last.n + 1,
                                !.exists = last.exists, !.unnamed = FALSE,
                                !.ok = r.ok, !.name = name, !.confirm = confirm,
                                !.answer = answer, !.store = store]
    /\ UNCHANGED <<sheets, dayLogVars, sumVars>>

\* Timesheet.load(name, storage_path), then Timesheet.list(storage_path) when
\* the file is there.
StoreLoad ==
    /\ last.n < MaxStoreOps
    /\ \E name \in StoreNameArgs \cup {default_name({})} :
        \E r \in {TimesheetLoad(name, store, last.exists)} :
            /\ last' = [NoStoreOp EXCEPT !.op = "load", !.n = last.n + 1,
                            !.exists = last.exists, !.unnamed = FALSE,
                            !.ok = r.ok, !.name = name, !.store = store,
                            !.loaded = r.sheet,
                            !.listed = IF TimesheetList(store, last.exists).ok
                                       THEN TimesheetList(store, last.exists).names
                                       ELSE {}]
    /\ UNCHANGED <<sheets, store, dayLogVars, sumVars>>

NextStore ==
    \/ StoreCreate
    \/ StoreSave
    \/ StoreCommand
    \/ StoreDelete
    \/ StoreLoad

SpecStore == InitStore /\ [][NextStore]_vars

-----------------------------------------------------------------------------
(* The default name scenario (SpecSlots): Timesheets are constructed with  *)
(* no storage_name against one store, saved at once or not; then the       *)
(* instances are saved and extended. sheets holds the instances in the     *)
(* order of their construction.                                            *)

MaxSlotOps == 4
MaxInstances == 3

NoSlotOp == [op |-> "none", self |-> 0, n |-> 0, ok |-> TRUE, save |-> FALSE,
             store |-> {}, sheets |-> <<>>]

InitSlots ==
    /\ sheets = <<>>
    /\ store = {}
    /\ last = NoSlotOp
    /\ daylog = Idle /\ pair = Idle /\ dlRes = Idle
    /\ sumIn = Idle /\ sumOut = Idle /\ aggIn = Idle /\ aggOut = Idle

\* Timesheet(save=save)
SlotCreate ==
    /\ last.n < MaxSlotOps
    /\ Len(sheets) < MaxInstances
    /\ last.op \in {"none", "create"}
    /\ \E save \in BOOLEAN :
       \E r \in {TimesheetConstructor(NoData, NoName, save, store, "batch")} :
            /\ sheets' = Append(sheets, r.sheet)
            /\ store' = r.store
            /\ last' = [NoSlotOp EXCEPT !.op = "create", !.self = Len(sheets) + 1,
                                        !.n = last.n + 1, !.save = save,
                                        !.store = store, !.sheets = sheets]
    /\ UNCHANGED <<dayLogVars, sumVars>>

\* sheets[i].save(overwrite=overwrite)
SlotSave(i) ==
    /\ last.n < MaxSlotOps
    /\ \E overwrite \in BOOLEAN :
        /\ store' = TimesheetSave(sheets[i], store, overwrite, "batch")
        /\ last' = [NoSlotOp EXCEPT !.op = "save", !.self = i, !.n = last.n + 1,
                                    !.save = overwrite, !.store = store, !.sheets = sheets]
    /\ UNCHANGED <<sheets, dayLogVars, sumVars>>

\* sheets[i].concat_timestamps(date=d, timestamps=ts)
SlotConcat(i) ==
    /\ last.n < MaxSlotOps
    /\ \E d \in DateArgs, ts \in {<<s>> : s \in SheetStamp} :
       \E r \in {TimesheetConcat(sheets[i], d, ts, ts[1], store)} :
            /\ sheets' = [sheets EXCEPT ![i] = r.sheet]
            /\ store' = r.store
            /\ last' = [NoSlotOp EXCEPT !.op = "concat", !.self = i, !.n = last.n + 1,
                                        !.ok = r.ok, !.store = store, !.sheets = sheets]
    /\ UNCHANGED <<dayLogVars, sumVars>>

NextSlots ==
    \/ SlotCreate
    \/ \E i \in 1..Len(sheets) : SlotSave(i)
    \/ \E i \in 1..Len(sheets) : SlotConcat(i)

SpecSlots == InitSlots /\ [][NextSlots]_vars

-----------------------------------------------------------------------------
(* The writers scenario (SpecWriters): two processes run the append        *)
(* command on the same entry of one store, each for a date of its own. A   *)
(* process loads the entry, then calls concat_timestamps on what it        *)
(* loaded, which saves; the calls of the two processes interleave. sheets  *)
(* holds the instance each process loaded, last the position of each       *)
(* process and the store at the start.                                     *)

Writers == {1, 2}

\* "t", the entry both processes append to, and "u", another entry.
SharedName == <<116>>
OtherName == <<117>>

\* --date of each process.
WriterDates == <<isoformat(EarlyDay), isoformat(Today)>>

\* The entries the store holds at the start: Timesheets with one DayLog.
WriterData ==
    {<<[key |-> isoformat(OtherDay), log |-> DayLogInit(OtherDay, ts).log]>> :
        ts \in {<<>>, <<from_time([time |-> 0])>>}}

InitWriters ==
    \E shared \in WriterData, other \in WriterData :
    \E t \in {TimesheetConstructor(shared, SharedName, TRUE, {}, "batch")} :
    \E u \in {TimesheetConstructor(other, OtherName, TRUE, t.store, "batch")} :
        /\ store = u.store
        /\ sheets = [p \in Writers |-> NoSheet]
        /\ last = [pc |-> [p \in Writers |-> "load"], ok |-> [p \in Writers |-> TRUE],
                   store |-> u.store]
        /\ daylog = Idle /\ pair = Idle /\ dlRes = Idle
        /\ sumIn = Idle /\ sumOut = Idle /\ aggIn = Idle /\ aggOut = Idle

\* Process p: instance = Timesheet.load(storage_name, storage_path)
WriterLoad(p) ==
    /\ last.pc[p] = "load"
    /\ \E r \in {TimesheetLoad(SharedName, store, TRUE)} :
        /\ sheets' = [sheets EXCEPT ![p] = r.sheet]
        /\ last' = [last EXCEPT !.pc[p] = IF r.ok THEN "concat" ELSE "done",
                                !.ok[p] = r.ok]
    /\ UNCHANGED <<store, dayLogVars, sumVars>>

\* Process p: instance.concat_timestamps(date=date, timestamps=parsed)
WriterConcat(p) ==
    /\ last.pc[p] = "concat"
    /\ \E ts \in SheetStampLists \ {<<>>} :
       \E r \in {TimesheetConcat(sheets[p], WriterDates[p], ts, ts[1], store)} :
        /\ sheets' = [sheets EXCEPT ![p] = r.sheet]
        /\ store' = r.store
        /\ last' = [last EXCEPT !.pc[p] = "done", !.ok[p] = r.ok]
    /\ UNCHANGED <<dayLogVars, sumVars>>

NextWriters ==
    \/ \E p \in Writers : WriterLoad(p)
    \/ \E p \in Writers : WriterConcat(p)

SpecWriters == InitWriters /\ [][NextWriters]_vars

-----------------------------------------------------------------------------
(* The reference scenario (SpecRef): DayLog objects have an identity. The  *)
(* heap (daylog) is the sequence of the DayLog objects made so far, a      *)
(* reference is an index into it, and a mapping holds references: pair is  *)
(* the two mappings a caller built, sheets the Timesheets a and b built    *)
(* from them. shelve pickles what it stores, so the store holds values.    *)

MaxRefOps == 3

\* The mapping with the DayLogs themselves in place of the references.
Deref(record, heap) ==
    [i \in 1..Len(record) |-> [key |-> record[i].key, log |-> heap[record[i].ref]]]

SheetValue(sheet, heap) ==
    [record |-> Deref(sheet.record, heap), storage_name |-> sheet.storage_name]

RefOf(record, key) == record[Lookup(record, key)].ref
Refs(record) == {record[i].ref : i \in 1..Len(record)}

\* What a call on Timesheets with an identity gives: the record of self and
\* the heap as the call leaves them.
RefOutcome(ok, record, storage_name, heap, st) ==
    [ok |-> ok, sheet |-> [record |-> record, storage_name |-> storage_name],
     heap |-> heap, store |-> st]

\* A constructor that keeps the DayLogs it is given: data[key] for
\* data[key].copy().
constructor_shared(data, c, heap, left) ==
    IF ~c.ok THEN RefOutcome(FALSE, left.record, left.storage_name, heap, c.store)
    ELSE RefOutcome(TRUE,
                    [i \in 1..Len(c.sheet.record) |->
                        [key |-> c.sheet.record[i].key,
                         ref |-> RefOf(data, c.sheet.record[i].key)]],
                    c.sheet.storage_name, heap, c.store)

\* Timesheet._constructor, c being what it does to the values: every
\* data[key].copy() is a new DayLog object. left is the instance as it stays
\* when the constructor raises.
constructor_copies(data, c, heap, left) ==
    IF ~c.ok THEN RefOutcome(FALSE, left.record, left.storage_name, heap, c.store)
    ELSE RefOutcome(TRUE,
                    [i \in 1..Len(c.sheet.record) |->
                        [key |-> c.sheet.record[i].key, ref |-> Len(heap) + i]],
                    c.sheet.storage_name,
                    heap \o [i \in 1..Len(c.sheet.record) |-> c.sheet.record[i].log],
                    c.store)

\* Timesheet(data=data, storage_name=storage_name, save=save)
RefConstructor(data, storage_name, save, heap, st) ==
    constructor_copies(data,
                       TimesheetConstructor(Deref(data, heap), storage_name, save, st, "batch"),
                       heap, NoSheet)

\* new_data of Timesheet.merge: under a key of one record only the DayLog
\* object of that record, under a common key the new DayLog object that +
\* returned, which is sums[key] on the heap.
merge_new_data(self, other, keys, common, heap) ==
    [i \in 1..Len(keys) |->
        [key |-> keys[i],
         ref |-> IF keys[i] \in Keys(self.record) /\ keys[i] \in Keys(other.record)
                 THEN Len(heap) + (CHOOSE n \in 1..Len(common) : common[n] = keys[i])
                 ELSE IF keys[i] \in Keys(self.record) THEN RefOf(self.record, keys[i])
                 ELSE RefOf(other.record, keys[i])]]

\* Timesheet.merge on objects, c being what it does to the values.
merge_objects(self, other, common, c, heap) ==
    IF ~c.ok THEN RefOutcome(FALSE, self.record, self.storage_name, heap, c.store)
    ELSE constructor_copies(
            merge_new_data(self, other,
                           [i \in 1..Len(c.sheet.record) |-> c.sheet.record[i].key],
                           common, heap),
            c,
            heap \o [n \in 1..Len(common) |->
                        DayLogAdd(heap[RefOf(self.record, common[n])],
                                  heap[RefOf(other.record, common[n])]).log],
            self)

\* self.merge(other, storage_name=storage_name, save=save)
RefMerge(self, other, storage_name, save, heap, st) ==
    merge_objects(self, other,
                  sorted_by_date(Keys(self.record) \cap Keys(other.record)),
                  TimesheetMerge(SheetValue(self, heap), SheetValue(other, heap),
                                 storage_name, save, st, "batch"),
                  heap)

\* Timesheet.concat_timestamps on objects, c being what it does to the
\* values: the DayLog object under the key is extended in place; under a new
\* key a new DayLog object is made.
concat_objects(self, datestamp, c, heap) ==
    IF ~c.ok THEN RefOutcome(FALSE, self.record, self.storage_name, heap, c.store)
    ELSE IF datestamp \in Keys(self.record)
    THEN RefOutcome(TRUE, self.record, self.storage_name,
                    [heap EXCEPT ![RefOf(self.record, datestamp)] =
                                        Get(c.sheet.record, datestamp)],
                    c.store)
    ELSE RefOutcome(TRUE, Append(self.record, [key |-> datestamp, ref |-> Len(heap) + 1]),
                    self.storage_name, Append(heap, Get(c.sheet.record, datestamp)), c.store)

\* self.concat_timestamps(date=d, timestamps=timestamps)
RefConcat(self, d, timestamps, now, heap, st) ==
    concat_objects(self, isoformat(handle_date_arg(fromisoformat(d), Today)),
                   TimesheetConcat(SheetValue(self, heap), d, timestamps, now, st), heap)

\* The timestamps of the DayLogs the caller builds.
RefStamps == {<<>>, <<[day |-> 0, time |-> 0]>>}

NoRefOp == [op |-> "none", self |-> 0, other |-> 0, key |-> <<>>, ok |-> TRUE, n |-> 0,
            heap |-> <<>>, sheets |-> <<>>, after |-> "none", after_ok |-> FALSE]

\* data_a = {OtherDay: DayLog(...)}; data_b = {OtherDay: DayLog(...),
\* Today: DayLog(...)}; a = Timesheet(data_a, "a", save=False);
\* b = Timesheet(data_b, "b", save=False)
InitRef ==
    \E x \in RefStamps, y \in RefStamps, z \in RefStamps :
    \E heap \in {<<DayLogInit(OtherDay, x).log, DayLogInit(OtherDay, y).log,
                   DayLogInit(Today, z).log>>} :
    \E data_a \in {<<[key |-> isoformat(OtherDay), ref |-> 1]>>} :
    \E data_b \in {<<[key |-> isoformat(OtherDay), ref |-> 2],
                     [key |-> isoformat(Today), ref |-> 3]>>} :
    \E a \in {RefConstructor(data_a, <<97>>, FALSE, heap, {})} :
    \E b \in {RefConstructor(data_b, <<98>>, FALSE, a.heap, a.store)} :
        /\ pair = <<data_a, data_b>>
        /\ sheets = <<a.sheet, b.sheet>>
        /\ daylog = b.heap
        /\ store = b.store
        /\ last = NoRefOp
        /\ dlRes = Idle
        /\ sumIn = Idle /\ sumOut = Idle /\ aggIn = Idle /\ aggOut = Idle

\* sheets[i].merge(sheets[j], storage_name=sheets[i].storage_name, save=save)
MergeObjects(i, j) ==
    /\ last.n < MaxRefOps
    /\ i # j
    /\ \E save \in BOOLEAN :
       \E r \in {RefMerge(sheets[i], sheets[j], sheets[i].storage_name, save, daylog, store)} :
            /\ sheets' = [sheets EXCEPT ![i] = r.sheet]
            /\ daylog' = r.heap
            /\ store' = r.store
            /\ last' = [NoRefOp EXCEPT !.op = "merge", !.self = i, !.other = j, !.ok = r.ok,
                                       !.n = last.n + 1, !.heap = daylog, !.sheets = sheets,
                                       !.after = last.op, !.after_ok = last.ok]
            /\ UNCHANGED <<pair, dlRes, sumVars>>

\* sheets[i].concat_timestamps(date=d, timestamps=ts)
ConcatObjects(i) ==
    /\ last.n < MaxRefOps
    /\ \E d \in DateArgs, ts \in {<<s>> : s \in SheetStamp} :
       \E r \in {RefConcat(sheets[i], d, ts, ts[1], daylog, store)} :
            /\ sheets' = [sheets EXCEPT ![i] = r.sheet]
            /\ daylog' = r.heap
            /\ store' = r.store
            /\ last' = [NoRefOp EXCEPT !.op = "concat", !.self = i, !.key = d, !.ok = r.ok,
                                       !.n = last.n + 1, !.heap = daylog, !.sheets = sheets,
                                       !.after = last.op, !.after_ok = last.ok]
            /\ UNCHANGED <<pair, dlRes, sumVars>>

\* pair[i][key].concat_timestamps(ts): the caller extends a DayLog of the
\* mapping a Timesheet was built from.
ConcatData(i) ==
    /\ last.n < MaxRefOps
    /\ \E k \in 1..Len(pair[i]), ts \in {<<s>> : s \in SheetStamp} :
       \E r \in {DayLogConcat(daylog[pair[i][k].ref], ts, ts[1])} :
            /\ daylog' = IF r.ok THEN [daylog EXCEPT ![pair[i][k].ref] = r.log] ELSE daylog
            /\ last' = [NoRefOp EXCEPT !.op = "data", !.self = i, !.key = pair[i][k].key,
                                       !.ok = r.ok, !.n = last.n + 1,
                                       !.heap = daylog, !.sheets = sheets,
                                       !.after = last.op, !.after_ok = last.ok]
            /\ UNCHANGED <<sheets, store, pair, dlRes, sumVars>>

NextRef ==
    \/ \E i \in SheetIds, j \in SheetIds : MergeObjects(i, j)
    \/ \E i \in SheetIds : ConcatObjects(i)
    \/ \E i \in SheetIds : ConcatData(i)

SpecRef == InitRef /\ [][NextRef]_vars

-----------------------------------------------------------------------------
(* TimeAggregate: the day, week, month and year strategies.                *)

DAYS_IN_WEEK == 7
MONTHS_IN_YEAR == 12

increment_day(d) == d + 1
floor_day(d) == d
decrement_day(d) == d - 1

\* floor_week that takes Sunday for the first day of the week.
floor_week_from_sunday(d) == d - (iso_weekday(d) % DAYS_IN_WEEK)

floor_week(d) == d - (iso_weekday(d) - 1)
increment_week(d) == floor_week(d) + DAYS_IN_WEEK
decrement_week(d) == floor_week(d) - DAYS_IN_WEEK

\* increment_month that stays in the same year.
increment_month_same_year(d) ==
    date(date_year(d), (date_month(d) % MONTHS_IN_YEAR) + 1, 1)

increment_month(d) ==
    date(date_year(d) + (date_month(d) \div 12), (date_month(d) % MONTHS_IN_YEAR) + 1, 1)
floor_month(d) == date(date_year(d), date_month(d), 1)
decrement_month(d) ==
    date(date_year(d) - (IF date_month(d) = 1 THEN 1 ELSE 0),
         MONTHS_IN_YEAR - ((date_month(d) - 1) % MONTHS_IN_YEAR), 1)

increment_year(d) == date(date_year(d) + 1, 1, 1)
floor_year(d) == date(date_year(d), 1, 1)
decrement_year(d) == date(date_year(d) - 1, 1, 1)

\* strftime with day_format, week_format ("%Y-%W"), month_format ("%Y-%-m":
\* the month without padding) and year_format.
day_format(d) == isoformat(d)
week_format(d) == Padded(date_year(d), 4) \o <<45>> \o Padded(week_of_year(d), 2)
month_format(d) == Padded(date_year(d), 4) \o <<45>> \o Digits(date_month(d))
year_format(d) == Padded(date_year(d), 4)

\* The built-in aggregates, by name.
Aggregates == {"day", "week", "month", "year"}

increment(aggregate, d) ==
    CASE aggregate = "day" -> increment_day(d)
      [] aggregate = "week" -> increment_week(d)
      [] aggregate = "month" -> increment_month(d)
      [] aggregate = "year" -> increment_year(d)

floor(aggregate, d) ==
    CASE aggregate = "day" -> floor_day(d)
      [] aggregate = "week" -> floor_week(d)
      [] aggregate = "month" -> floor_month(d)
      [] aggregate = "year" -> floor_year(d)

decrement(aggregate, d) ==
    CASE aggregate = "day" -> decrement_day(d)
      [] aggregate = "week" -> decrement_week(d)
      [] aggregate = "month" -> decrement_month(d)
      [] aggregate = "year" -> decrement_year(d)

\* datetime.date.strftime(d, aggregate.string_format.format)
strftime(aggregate, d) ==
    CASE aggregate = "day" -> day_format(d)
      [] aggregate = "week" -> week_format(d)
      [] aggregate = "month" -> month_format(d)
      [] aggregate = "year" -> year_format(d)

-----------------------------------------------------------------------------
(* The strategy scenario (SpecAgg): one strategy and one date, to which    *)
(* increment, floor, decrement and their compositions are applied.         *)

FirstAggDay == date(2019, 12, 1)
LastAggDay == date(2021, 3, 5)

NoValue == [op |-> "none", value |-> 0]

InitAgg ==
    /\ aggIn \in [aggregate : Aggregates, date : FirstAggDay..LastAggDay]
    /\ aggOut = NoValue
    /\ daylog = Idle /\ pair = Idle /\ dlRes = Idle
    /\ sheets = Idle /\ store = Idle /\ last = Idle
    /\ sumIn = Idle /\ sumOut = Idle

\* aggregate.increment(date)
Increment ==
    /\ aggOut' = [op |-> "increment", value |-> increment(aggIn.aggregate, aggIn.date)]
    /\ UNCHANGED <<aggIn, sumIn, sumOut, dayLogVars, sheetVars>>

\* aggregate.floor(date)
Floor ==
    /\ aggOut' = [op |-> "floor", value |-> floor(aggIn.aggregate, aggIn.date)]
    /\ UNCHANGED <<aggIn, sumIn, sumOut, dayLogVars, sheetVars>>

\* aggregate.increment(aggregate.floor(date))
IncrementFloor ==
    /\ aggOut' = [op |-> "increment_floor",
                  value |-> increment(aggIn.aggregate, floor(aggIn.aggregate, aggIn.date))]
    /\ UNCHANGED <<aggIn, sumIn, sumOut, dayLogVars, sheetVars>>

\* aggregate.floor(aggregate.floor(date))
FloorFloor ==
    /\ aggOut' = [op |-> "floor_floor",
                  value |-> floor(aggIn.aggregate, floor(aggIn.aggregate, aggIn.date))]
    /\ UNCHANGED <<aggIn, sumIn, sumOut, dayLogVars, sheetVars>>

\* aggregate.decrement(date)
Decrement ==
    /\ aggOut' = [op |-> "decrement", value |-> decrement(aggIn.aggregate, aggIn.date)]
    /\ UNCHANGED <<aggIn, sumIn, sumOut, dayLogVars, sheetVars>>

NextAgg ==
    \/ Increment
    \/ Floor
    \/ IncrementFloor
    \/ FloorFloor
    \/ Decrement

SpecAgg == InitAgg /\ [][NextAgg]_vars

-----------------------------------------------------------------------------
(* sum_DayLogs: the summary of a record, a dict of hours by bucket key,    *)
(* and Timesheet.summarize, which hands its record to it.                  *)

\* datetime.date.min, datetime.date.max
DateMin == date(1, 1, 1)
DateMax == date(9999, 12, 31)

\* out.get(key, default) and out[key] = value on a dict of [key, value] items.
dict_has(out, key) == \E i \in 1..Len(out) : out[i].key = key
dict_get(out, key, default) ==
    IF dict_has(out, key) THEN out[CHOOSE i \in 1..Len(out) : out[i].key = key].value
    ELSE default
dict_set(out, key, value) ==
    IF dict_has(out, key)
    THEN [i \in 1..Len(out) |-> IF out[i].key = key THEN [key |-> key, value |-> value]
                                ELSE out[i]]
    ELSE Append(out, [key |-> key, value |-> value])

py_min(a, b) == IF b < a THEN b ELSE a
py_max(a, b) == IF b > a THEN b ELSE a

\* The body of the scan for an in-range date that replaces the bucket's hours.
scan_add_overwrite(acc, this_date, key, hours) ==
    [out |-> dict_set(acc.out, key, hours),
     min_date |-> py_min(this_date, acc.min_date),
     max_date |-> py_max(this_date, acc.max_date)]

\* The body of the scan for an in-range date: lines 190-193.
scan_add(acc, this_date, key, hours) ==
    [out |-> dict_set(acc.out, key, dict_get(acc.out, key, 0) + hours),
     min_date |-> py_min(this_date, acc.min_date),
     max_date |-> py_max(this_date, acc.max_date)]

\* One turn of the scan: this_date is the floor of the item's date.
scan_item(item, this_date, start_date, end_date, aggregate, acc) ==
    IF start_date <= this_date /\ this_date < end_date
    THEN scan_add(acc, this_date, strftime(aggregate, this_date),
                  sum_time_intervals(item.log))
    ELSE acc

\* for datestamp, daylog in record.items(): ...
RECURSIVE scan(_, _, _, _, _)
scan(items, start_date, end_date, aggregate, acc) ==
    IF items = <<>> THEN acc
    ELSE scan(Tail(items), start_date, end_date, aggregate,
              scan_item(Head(items), floor(aggregate, fromisoformat(Head(items).key)),
                        start_date, end_date, aggregate, acc))

\* The dates cur_date takes in the loop `while cur_date < max_date`.
RECURSIVE walk(_, _, _)
walk(cur_date, max_date, aggregate) ==
    IF cur_date < max_date
    THEN <<cur_date>> \o walk(increment(aggregate, cur_date), max_date, aggregate)
    ELSE <<>>

\* The dict after out[key] = out.get(key, 0) for each key in turn: a key out
\* lacks is added at the end, with 0, where it first comes up.
fill_keys(out, keys) ==
    out \o [i \in 1..Len(keys) |-> [key |-> keys[i], value |-> 0]]

first_missing(out, keys) ==
    SelectSeq([i \in 1..Len(keys) |->
                  IF dict_has(out, keys[i]) \/ \E j \in 1..(i - 1) : keys[j] = keys[i]
                  THEN <<>> ELSE keys[i]],
              LAMBDA key : key # <<>>)

strftime_all(aggregate, dates) == [i \in 1..Len(dates) |-> strftime(aggregate, dates[i])]

\* A backfill that adds nothing.
fill_none(cur_date, max_date, aggregate, out) == out

\* while cur_date < max_date: ...
fill(cur_date, max_date, aggregate, out) ==
    fill_keys(out, first_missing(out, strftime_all(aggregate,
                                                   walk(cur_date, max_date, aggregate))))

\* sorted(out.items(), key=lambda kv: kv[0]), the keys being distinct.
RECURSIVE sorted_items(_)
sorted_items(items) ==
    IF items = {} THEN <<>>
    ELSE <<CHOOSE x \in items : \A y \in items : y = x \/ StrLess(x.key, y.key)>>
         \o sorted_items(items \ {CHOOSE x \in items :
                                    \A y \in items : y = x \/ StrLess(x.key, y.key)})

fill_and_sort(acc, aggregate) ==
    sorted_items(Range(IF Len(acc.out) > 0
                       THEN fill(acc.min_date, acc.max_date, aggregate, acc.out)
                       ELSE acc.out))

sum_DayLogs(record, start_date, end_date, aggregate) ==
    fill_and_sort(scan(record, start_date, end_date, aggregate,
                       [out |-> <<>>, min_date |-> DateMax, max_date |-> DateMin]),
                  aggregate)

\* Timesheet.summarize
summarize(self, start_date, end_date, aggregate) ==
    sum_DayLogs(self.record, start_date, end_date, aggregate)

\* DateFormat.separator of the aggregate's string_format; the year format has
\* separator None, and str.split(None) splits on whitespace.
Hyphen == 45
Space == 32
separator(aggregate) == IF aggregate = "year" THEN Space ELSE Hyphen

\* DateFormat.components
components(aggregate) ==
    CASE aggregate = "day" -> <<"year", "month", "day">>
      [] aggregate = "week" -> <<"year", "week">>
      [] aggregate = "month" -> <<"year", "month">>
      [] aggregate = "year" -> <<"year">>

\* str.split(sep) of a string without two separators in a row
RECURSIVE split(_, _)
split(s, sep) ==
    IF \A i \in 1..Len(s) : s[i] # sep THEN <<s>>
    ELSE LET i == CHOOSE j \in 1..Len(s) : s[j] = sep /\ \A k \in 1..(j - 1) : s[k] # sep
         IN <<SubSeq(s, 1, i - 1)>> \o split(SubSeq(s, i + 1, Len(s)), sep)

\* str.lstrip("0")
RECURSIVE lstrip_zeros(_)
lstrip_zeros(s) == IF s # <<>> /\ Head(s) = 48 THEN lstrip_zeros(Tail(s)) ELSE s

\* [part.lstrip("0") for part in parts]
strip_parts(parts) == [i \in 1..Len(parts) |-> lstrip_zeros(parts[i])]

\* DateFormat.decompose
decompose(aggregate, datestamp) == strip_parts(split(datestamp, separator(aggregate)))

\* zip(*rows): as many tuples as the shortest row has fields, none if there
\* are no rows; tuple c holds field c of every row.
zip_star(rows) ==
    IF rows = <<>> THEN <<>>
    ELSE [c \in 1..SetMin({Len(rows[k]) : k \in 1..Len(rows)}) |->
              [k \in 1..Len(rows) |-> rows[k][c]]]

\* dict(zip(names, columns))
zip_dict(names, columns) ==
    [c \in 1..SetMin({Len(names), Len(columns)}) |-> [key |-> names[c], value |-> columns[c]]]

\* DateFormat.decompose_dict
decompose_dict(aggregate, datestamps) ==
    zip_dict(components(aggregate),
             zip_star([k \in 1..Len(datestamps) |-> decompose(aggregate, datestamps[k])]))

\* breakdowns = {"date": keys, **decompose_dict(keys), "hours": values}
breakdowns(aggregate, data) ==
    <<[key |-> "date", value |-> [k \in 1..Len(data) |-> data[k].key]]>>
        \o decompose_dict(aggregate, [k \in 1..Len(data) |-> data[k].key])
        \o <<[key |-> "hours", value |-> [k \in 1..Len(data) |-> data[k].value]]>>

\* The rows csv.writer is given: the keys of breakdowns, then zip(*values).
csv_rows(columns) ==
    [header |-> [c \in 1..Len(columns) |-> columns[c].key],
     rows |-> zip_star([c \in 1..Len(columns) |-> columns[c].value])]

\* Timesheet.write_csv_summary: the header and the data rows written.
write_csv_summary(self, start_date, end_date, aggregate) ==
    csv_rows(breakdowns(aggregate, summarize(self, start_date, end_date, aggregate)))

-----------------------------------------------------------------------------
(* The summary scenario (SpecSum): a Timesheet built from some data is     *)
(* summarized once, for some range and aggregate.                          *)

\* The dates the data may have DayLogs for: a Monday, a Wednesday of the last
\* week of a year, a Saturday before the next year's first Monday, and a
\* Monday a month later.
SumDays == <<date(2020, 12, 21), date(2020, 12, 30), date(2021, 1, 2), date(2021, 2, 1)>>

\* The timestamps of the DayLogs of the data: none, or one interval.
SumStamps ==
    {<<>>,
     <<[day |-> 0, time |-> 0], [day |-> 0, time |-> 1]>>,
     <<[day |-> 0, time |-> 0], [day |-> 0, time |-> MaxTime]>>}

\* The data dicts over the first n of SumDays.
RECURSIVE SumData(_)
SumData(n) ==
    IF n = 0 THEN {<<>>}
    ELSE SumData(n - 1)
         \cup {Append(r, [key |-> isoformat(SumDays[n]), log |-> DayLogInit(SumDays[n], ts).log]) :
                    r \in SumData(n - 1), ts \in SumStamps}

StartDates == {DateMin, date(2020, 12, 28), date(2021, 1, 1)}
EndDates == {DateMax, date(2021, 1, 1), date(2021, 2, 1)}

NoCsv == [header |-> <<>>, rows |-> <<>>]
NoSummary == [done |-> FALSE, summary |-> <<>>, written |-> FALSE, csv |-> NoCsv]

InitSum ==
    /\ \E data \in SumData(Len(SumDays)) :
       \E ts \in {TimesheetConstructor(data, NoName, FALSE, {}, "batch")} :
       \E start_date \in StartDates, end_date \in EndDates, aggregate \in Aggregates :
            sumIn = [sheet |-> ts.sheet, start_date |-> start_date,
                     end_date |-> end_date, aggregate |-> aggregate]
    /\ sumOut = NoSummary
    /\ daylog = Idle /\ pair = Idle /\ dlRes = Idle
    /\ sheets = Idle /\ store = Idle /\ last = Idle
    /\ aggIn = Idle /\ aggOut = Idle

\* ts.summarize(start_date, end_date, aggregate)
Summarize ==
    /\ ~sumOut.done
    /\ sumOut' = [sumOut EXCEPT !.done = TRUE,
                                 !.summary = summarize(sumIn.sheet, sumIn.start_date,
                                                       sumIn.end_date, sumIn.aggregate)]
    /\ UNCHANGED <<sumIn, aggIn, aggOut, dayLogVars, sheetVars>>

\* ts.write_csv_summary(output_path, start_date, end_date, aggregate)
WriteCsvSummary ==
    /\ ~sumOut.written
    /\ sumOut' = [sumOut EXCEPT !.written = TRUE,
                                 !.csv = write_csv_summary(sumIn.sheet, sumIn.start_date,
                                                           sumIn.end_date, sumIn.aggregate)]
    /\ UNCHANGED <<sumIn, aggIn, aggOut, dayLogVars, sheetVars>>

NextSum == Summarize \/ WriteCsvSummary

SpecSum == InitSum /\ [][NextSum]_vars

-----------------------------------------------------------------------------
(* The backfill scenario (SpecWalk): sum_DayLogs run step by step from the *)
(* end of its scan of the record. Every turn of the loop                   *)
(* `while cur_date < max_date` is one step, and so are leaving the loop    *)
(* and sorting. sumIn holds the arguments, sumOut the local variables and  *)
(* the position. The function runs in one thread, so a step that can be    *)
(* taken is taken.                                                         *)

\* The data dicts over the first n of SumDays, the DayLogs without timestamps.
RECURSIVE WalkData(_)
WalkData(n) ==
    IF n = 0 THEN {<<>>}
    ELSE WalkData(n - 1)
         \cup {Append(r, [key |-> isoformat(SumDays[n]),
                          log |-> DayLogInit(SumDays[n], <<>>).log]) : r \in WalkData(n - 1)}

\* The local variables once the scan `for datestamp, daylog in
\* record.items()` has ended with acc and cur_date = min_date is done: the
\* loop is next if len(out) > 0, the sorting if not.
Scanned(acc) ==
    [pc |-> IF Len(acc.out) > 0 THEN "fill" ELSE "sort",
     out |-> acc.out, cur_date |-> acc.min_date, min_date |-> acc.min_date,
     max_date |-> acc.max_date, steps |-> 0]

InitWalk ==
    /\ \E data \in WalkData(Len(SumDays)) :
       \E ts \in {TimesheetConstructor(data, NoName, FALSE, {}, "batch")} :
       \E start_date \in StartDates, end_date \in EndDates, aggregate \in Aggregates :
            /\ sumIn = [sheet |-> ts.sheet, start_date |-> start_date,
                        end_date |-> end_date, aggregate |-> aggregate]
            /\ sumOut = Scanned(scan(ts.sheet.record, start_date, end_date, aggregate,
                                     [out |-> <<>>, min_date |-> DateMax,
                                      max_date |-> DateMin]))
    /\ daylog = Idle /\ pair = Idle /\ dlRes = Idle
    /\ sheets = Idle /\ store = Idle /\ last = Idle
    /\ aggIn = Idle /\ aggOut = Idle

\* One turn of `while cur_date < max_date`.
WalkStep ==
    /\ sumOut.pc = "fill"
    /\ sumOut.cur_date < sumOut.max_date
    /\ \E key \in {strftime(sumIn.aggregate, sumOut.cur_date)} :
        sumOut' = [sumOut EXCEPT !.out = dict_set(sumOut.out, key, dict_get(sumOut.out, key, 0)),
                                 !.cur_date = increment(sumIn.aggregate, sumOut.cur_date),
                                 !.steps = sumOut.steps + 1]
    /\ UNCHANGED <<sumIn, aggIn, aggOut, dayLogVars, sheetVars>>

\* The loop condition is false.
WalkExit ==
    /\ sumOut.pc = "fill"
    /\ ~(sumOut.cur_date < sumOut.max_date)
    /\ sumOut' = [sumOut EXCEPT !.pc = "sort"]
    /\ UNCHANGED <<sumIn, aggIn, aggOut, dayLogVars, sheetVars>>

\* return {... for datestamp, daylog in sorted(out.items(), ...)}: the dict
\* returned is Returned_summary.
WalkSort ==
    /\ sumOut.pc = "sort"
    /\ sumOut' = [sumOut EXCEPT !.pc = "done"]
    /\ UNCHANGED <<sumIn, aggIn, aggOut, dayLogVars, sheetVars>>

Returned_summary == sorted_items(Range(sumOut.out))

NextWalk ==
    \/ WalkStep
    \/ WalkExit
    \/ WalkSort

SpecWalk == InitWalk /\ [][NextWalk]_vars /\ WF_vars(NextWalk)

-----------------------------------------------------------------------------
(* Claims about Timesheets.                                                *)

\* C1: in every reachable state, whatever DayLog constructions,
\* concatenations, additions, Timesheet.concat_timestamps and Timesheet.merge
\* calls came before, the timestamps of every DayLog ascend strictly.
C1_TimestampsStrictlyAscending ==
    \A i \in 1..Len(sheets) : \A k \in 1..Len(sheets[i].record) :
        validate_timestamp_sequence(sheets[i].record[k].log.timestamps)

\* C4: ts.merge(ts) raises for every Timesheet ts.
C4_SelfMergeRaises ==
    (last.op = "merge" /\ last.self = last.other) => ~last.ok

\* The timestamps under key k of a record.
TimestampsAt(record, k) == Get(record, k).timestamps

\* C5: after a successful a.merge(b) the keys of a.record are those of a and b
\* before the call; a key of one side only keeps that side's timestamps; a key
\* of both sides has the timestamps of a[k] + b[k].  Merging the single-date
\* Timesheets of a mapping one after another gives the record of the Timesheet
\* constructed from the whole mapping.
C5_MergeCombinesRecords ==
    /\ (last.op = "merge" /\ last.ok) =>
        LET a == last.sheets[last.self].record
            b == last.sheets[last.other].record
            merged == sheets[last.self].record
        IN  /\ Keys(merged) = Keys(a) \cup Keys(b)
            /\ Len(merged) = Cardinality(Keys(merged))
            /\ \A k \in Keys(a) \ Keys(b) : TimestampsAt(merged, k) = TimestampsAt(a, k)
            /\ \A k \in Keys(b) \ Keys(a) : TimestampsAt(merged, k) = TimestampsAt(b, k)
            /\ \A k \in Keys(a) \cap Keys(b) :
                /\ DayLogAdd(Get(a, k), Get(b, k)).ok
                /\ TimestampsAt(merged, k) = DayLogAdd(Get(a, k), Get(b, k)).log.timestamps
    /\ (last.op = "sequential" /\ Len(sheets) = 1) =>
        sheets[1].record
            = TimesheetConstructor(last.reference, NoName, FALSE, {}, "batch").sheet.record

\* a.merge(b) has succeeded for two Timesheets with a key only a has and a key
\* both have, under which both DayLogs hold timestamps.
C5_Witness ==
    /\ last.op = "merge"
    /\ last.ok
    /\ last.self # last.other
    /\ Keys(last.sheets[last.self].record) \ Keys(last.sheets[last.other].record) # {}
    /\ \E k \in Keys(last.sheets[last.self].record) \cap Keys(last.sheets[last.other].record) :
        /\ TimestampsAt(last.sheets[last.self].record, k) # <<>>
        /\ TimestampsAt(last.sheets[last.other].record, k) # <<>>
        /\ Len(TimestampsAt(sheets[last.self].record, k)) > 1

\* C6: when a.merge(b) raises, a.record, b.record, a's storage name and every
\* entry of the store are what they were before the call.
C6_FailedMergeCommitsNothing ==
    (last.op = "merge" /\ ~last.ok) => (sheets = last.sheets /\ store = last.store)

\* a.merge(b) has raised although one of the two common keys could have been
\* combined and b has timestamps a lacks; the store holds both Timesheets.
C6_Witness ==
    /\ last.op = "merge"
    /\ ~last.ok
    /\ last.self # last.other
    /\ Cardinality(StoreNames(store)) = 2
    /\ \E k \in Keys(sheets[last.self].record) \cap Keys(sheets[last.other].record) :
        /\ DayLogAdd(Get(sheets[last.self].record, k), Get(sheets[last.other].record, k)).ok
        /\ TimestampsAt(sheets[last.other].record, k) # <<>>
    /\ \E k \in Keys(sheets[last.self].record) \cap Keys(sheets[last.other].record) :
        ~DayLogAdd(Get(sheets[last.self].record, k), Get(sheets[last.other].record, k)).ok

\* C17: the date keys of every Timesheet's record are in ascending date order
\* after any sequence of construction, merge and concat_timestamps.
C17_RecordKeysAscending ==
    \A i \in SheetIds :
        \A k \in 1..(Len(sheets[i].record) - 1) :
            fromisoformat(sheets[i].record[k].key) < fromisoformat(sheets[i].record[k + 1].key)

\* "timesheet" followed by the decimal digits of k.
TimesheetNumbered(k) == TimesheetStem \o Digits(k)

\* name is "timesheet" followed by an integer above every integer so used in
\* the store st, and no key of st.
AutoNamed(name, st) ==
    /\ name \notin StoreNames(st)
    /\ \E k \in 1..(MaxStoreOps + 3) :
        /\ name = TimesheetNumbered(k)
        /\ \A j \in 1..(MaxStoreOps + 3) : TimesheetNumbered(j) \in StoreNames(st) => j < k

\* C18: a Timesheet created with no storage_name is named "timesheet" followed
\* by the next unused integer, a name the store does not hold at that moment;
\* N unnamed Timesheets created and saved one after another into an empty
\* store leave exactly the names timesheet1 .. timesheetN, one entry each.
C18_AutoNaming ==
    /\ (last.op = "create" /\ last.name = NoName) =>
        AutoNamed(sheets[1].storage_name, last.store)
    /\ (last.op = "command" /\ last.name = NoName) =>
        /\ last.store \subseteq store
        /\ Cardinality(store) = Cardinality(last.store) + 1
        /\ \A e \in store \ last.store : AutoNamed(e.name, last.store)
    /\ last.unnamed =>
        /\ StoreNames(store) = {TimesheetNumbered(i) : i \in 1..last.n}
        /\ Cardinality(store) = last.n

\* MaxStoreOps unnamed Timesheets have been created and saved in a row, the
\* last one by the constructor.
C18_Witness ==
    /\ last.unnamed
    /\ last.n = MaxStoreOps
    /\ last.op = "create"
    /\ sheets[1].storage_name = TimesheetNumbered(MaxStoreOps)
    /\ Cardinality(store) = MaxStoreOps

\* C19: in a non-interactive session save(overwrite=False), and the create
\* command without --overwrite, on a storage_name the store holds return
\* without error and leave the store as it was; an entry of the store is
\* replaced only when overwrite is asked for.
C19_OverwriteProtection ==
    (/\ last.op \in {"save", "command"}
     /\ last.answer = "batch"
     /\ last.name \in StoreNames(last.store)) =>
        /\ ~last.overwrite => (last.ok /\ store = last.store)
        /\ Stored(store, last.name) # Stored(last.store, last.name) => last.overwrite

\* save(overwrite=False) was called in a non-interactive session on a Timesheet
\* that differs from the entry stored under its name, and the entry is as it
\* was.
C19_Witness ==
    /\ last.op = "save"
    /\ last.answer = "batch"
    /\ ~last.overwrite
    /\ last.name \in StoreNames(last.store)
    /\ Stored(last.store, last.name) # sheets[1]
    /\ store = last.store

\* C20: in a non-interactive session delete(name, confirm=True) leaves the
\* entry in the store; delete(name, confirm=False) removes that entry and no
\* other; delete of a name the store does not hold raises and changes nothing.
C20_Delete ==
    last.op = "delete" =>
        /\ (last.name \in StoreNames(last.store) /\ last.confirm /\ last.answer = "batch") =>
            store = last.store
        /\ (last.name \in StoreNames(last.store) /\ ~last.confirm) =>
            /\ last.ok
            /\ store = {e \in last.store : e.name # last.name}
        /\ last.name \notin StoreNames(last.store) =>
            /\ ~last.ok
            /\ store = last.store

\* C21: for every Timesheet saved under a name, also one whose record has no
\* dates, load(name, path) returns a Timesheet that equals the saved one, and
\* list(path) holds the name.
C21_SaveLoadRoundTrip ==
    (last.op = "load" /\ last.name \in StoreNames(last.store)) =>
        /\ last.ok
        /\ TimesheetEquals(last.loaded, Stored(last.store, last.name))
        /\ last.name \in last.listed

\* C24: among Timesheets constructed with no storage_name against one store,
\* whether saved at once or not, and saved or extended afterwards, no two
\* instances hold the same storage_name, and the save that ends an instance's
\* concat_timestamps leaves the stored entry of every other instance as it was.
C24_DistinctSlots ==
    /\ \A i \in 1..Len(sheets), j \in 1..Len(sheets) :
        i # j => sheets[i].storage_name # sheets[j].storage_name
    /\ last.op = "concat" =>
        \A j \in 1..Len(sheets) :
            (j # last.self /\ sheets[j].storage_name \in StoreNames(last.store)) =>
                /\ sheets[j].storage_name \in StoreNames(store)
                /\ Stored(store, sheets[j].storage_name)
                        = Stored(last.store, sheets[j].storage_name)

\* C25: after t.concat_timestamps(date, ts) returned, the store holds under
\* t.storage_name an entry whose record is t's record, whatever it held
\* before; if date was not a key of the record, the record has under it a new
\* DayLog whose timestamps are the given ts (as DiffTimes), the other keys
\* being as before; and if the call raised, t's record and the store are as
\* they were.
ConcatKey == isoformat(handle_date_arg(fromisoformat(last.date), Today))

C27_OtherEntriesIntact ==
    /\ StoreNames(store) = {SharedName, OtherName}
    /\ StoreNames(store) = StoreNames(last.store)
    /\ \A name \in StoreNames(store) \ {SharedName} :
        Stored(store, name) = Stored(last.store, name)
    /\ \A i \in 1..Len(Stored(last.store, SharedName).record) :
        Stored(store, SharedName).record[i] = Stored(last.store, SharedName).record[i]
    /\ Keys(Stored(store, SharedName).record)
        \subseteq Keys(Stored(last.store, SharedName).record) \cup Range(WriterDates)
    /\ \A p \in Writers :
        (last.pc[p] = "done" /\ last.ok[p]) =>
            \E q \in Writers : WriterDates[q] \in Keys(Stored(store, SharedName).record)

\* Both processes have appended and saved, and the stored entry lacks the
\* date of one of them.
C27_LostUpdate ==
    /\ \A p \in Writers : last.pc[p] = "done" /\ last.ok[p]
    /\ \E p \in Writers : WriterDates[p] \notin Keys(Stored(store, SharedName).record)

\* C28: in every Timesheet reached by construction, concat_timestamps (for
\* a date in the record or not) and merge, the DayLog under a key has that
\* key's date as its date, so that the DayLogs two Timesheets hold under the
\* same key have the same date.
C28_DateMatchesKey ==
    /\ \A i \in SheetIds : \A k \in 1..Len(sheets[i].record) :
        sheets[i].record[k].log.date = fromisoformat(sheets[i].record[k].key)
    /\ \A i \in SheetIds, j \in SheetIds :
        \A key \in Keys(sheets[i].record) \cap Keys(sheets[j].record) :
            Get(sheets[i].record, key).date = Get(sheets[j].record, key).date

\* The DayLogs of the objects refs are the same before and after the last
\* call.
Untouched(refs) == \A r \in refs : daylog[r] = last.heap[r]

\* C23: Timesheets share no DayLog object with their inputs. a.merge(b)
\* leaves b.record as it was; a call of a.concat_timestamps, after
\* Timesheet(data) and after any a.merge(b), changes no DayLog of a mapping a
\* Timesheet was built from and none of the other Timesheet's record; and
\* extending a DayLog of such a mapping changes no Timesheet's record.
C23_NoSharedDayLogs ==
    /\ last.op = "merge" =>
        /\ sheets[last.other] = last.sheets[last.other]
        /\ Untouched(Refs(sheets[last.other].record))
    /\ last.op = "concat" =>
        /\ Untouched(Refs(pair[1]) \cup Refs(pair[2]))
        /\ \A j \in SheetIds \ {last.self} :
            /\ sheets[j] = last.sheets[j]
            /\ Untouched(Refs(sheets[j].record))
    /\ last.op = "data" =>
        \A j \in SheetIds : sheets[j] = last.sheets[j] /\ Untouched(Refs(sheets[j].record))

\* a.concat_timestamps has extended, right after a.merge(b) returned, the
\* DayLog under a key that a has from b.
C23_Witness ==
    /\ last.op = "concat" /\ last.ok
    /\ last.after = "merge" /\ last.after_ok
    /\ last.key \in Keys(sheets[1].record) \cap Keys(sheets[2].record)
    /\ last.key \notin Keys(pair[last.self])
    /\ Len(daylog) = Len(last.heap)
    /\ daylog # last.heap

-----------------------------------------------------------------------------
(* Claims about DayLog addition and interval sums.                         *)

MaxStamp(ts) == CHOOSE x \in Range(ts) : \A y \in Range(ts) : NotLater(y, x)
MinStamp(ts) == CHOOSE x \in Range(ts) : \A y \in Range(ts) : NotLater(x, y)

\* The condition the text gives for a + b to succeed.
Orderable(a, b) ==
    \/ Len(a) = 0
    \/ Len(b) = 0
    \/ Later(MinStamp(b), MaxStamp(a))
    \/ Later(MinStamp(a), MaxStamp(b))

\* The two timestamp lists put together in chronological order.
Chronological(a, b) ==
    IF Len(a) = 0 THEN b
    ELSE IF Len(b) = 0 THEN a
    ELSE IF Later(MinStamp(b), MaxStamp(a)) THEN a \o b
    ELSE b \o a

\* C2: for DayLogs a and b of the same date, a + b succeeds exactly when a is
\* empty, b is empty, max(a) < min(b) or max(b) < min(a); the result then holds
\* both timestamp lists in chronological order; otherwise a + b raises.
C2_AddSucceedsExactlyWhenOrderable ==
    (dlRes.op = "add" /\ pair[dlRes.self].date = pair[dlRes.other].date) =>
        LET a == pair[dlRes.self].timestamps
            b == pair[dlRes.other].timestamps
        IN  /\ dlRes.ok = Orderable(a, b)
            /\ dlRes.ok => dlRes.log.timestamps = Chronological(a, b)

\* C3: for DayLogs a and b of the same date, a + b and b + a either both raise
\* or both succeed with equal timestamp sequences.
C3_AddCommutes ==
    (dlRes.op = "add" /\ pair[dlRes.self].date = pair[dlRes.other].date) =>
        LET swapped == DayLogAdd(pair[dlRes.other], pair[dlRes.self])
        IN  /\ swapped.ok = dlRes.ok
            /\ dlRes.ok => swapped.log.timestamps = dlRes.log.timestamps

\* a + b has succeeded for two different non-empty DayLogs where a lies
\* entirely after b, so the result starts with b's timestamps.
C3_Witness ==
    /\ dlRes.op = "add"
    /\ dlRes.ok
    /\ dlRes.self # dlRes.other
    /\ pair[dlRes.self].timestamps # <<>>
    /\ pair[dlRes.other].timestamps # <<>>
    /\ Later(pair[dlRes.self].timestamps[1], MaxStamp(pair[dlRes.other].timestamps))
    /\ dlRes.log.timestamps = pair[dlRes.other].timestamps \o pair[dlRes.self].timestamps

\* The sum, over the consecutive (1st, 2nd), (3rd, 4th), ... pairs of a list of
\* DiffTimes, of second minus first; a last unpaired element counts for nothing.
RECURSIVE PairSum(_)
PairSum(ts) ==
    IF Len(ts) < 2 THEN 0
    ELSE (ts[2].time - ts[1].time) + PairSum(SubSeq(ts, 3, Len(ts)))

\* C7: sum_time_intervals returns the sum over the consecutive timestamp pairs
\* of the pair's difference, ignores an unpaired last timestamp, returns 0 for
\* fewer than two timestamps, and leaves the timestamps unchanged.
C7_SumTimeIntervals ==
    dlRes.op = "sum" =>
        /\ dlRes.hours = PairSum(dlRes.pre.timestamps)
        /\ Len(dlRes.pre.timestamps) < 2 => dlRes.hours = 0
        /\ daylog = dlRes.pre

\* An interval sum over three ascending timestamps, the last one unpaired and
\* later than the second.
C7_Witness ==
    /\ dlRes.op = "sum"
    /\ Len(daylog.timestamps) = 3
    /\ validate_timestamp_sequence(daylog.timestamps)
    /\ dlRes.hours > 0

\* The operand of the last + whose timestamps come first in the result; an
\* empty operand when there is one.
EarlierOperand ==
    IF pair[dlRes.self].timestamps = <<>> \/ pair[dlRes.other].timestamps = <<>>
    THEN <<>>
    ELSE IF Later(pair[dlRes.other].timestamps[1], MaxStamp(pair[dlRes.self].timestamps))
    THEN pair[dlRes.self].timestamps
    ELSE pair[dlRes.other].timestamps

\* C29: when a + b has succeeded for DayLogs of the same date and the operand
\* that comes first in time has an even number of timestamps, the interval
\* sum of a + b is the interval sum of a plus that of b; and the interval sum
\* of a DayLog whose timestamps ascend strictly is never negative.
C29_AddPreservesHours ==
    /\ (dlRes.op = "add" /\ dlRes.ok /\ pair[dlRes.self].date = pair[dlRes.other].date
            /\ Len(EarlierOperand) % 2 = 0) =>
        sum_time_intervals(dlRes.log)
            = sum_time_intervals(pair[dlRes.self]) + sum_time_intervals(pair[dlRes.other])
    /\ \A i \in DOMAIN pair :
        validate_timestamp_sequence(pair[i].timestamps) => sum_time_intervals(pair[i]) >= 0
    /\ (dlRes.op = "add" /\ dlRes.ok /\ validate_timestamp_sequence(dlRes.log.timestamps)) =>
        sum_time_intervals(dlRes.log) >= 0

\* a + b has succeeded for two DayLogs with an interval each, b's before a's.
C29_Witness ==
    /\ dlRes.op = "add" /\ dlRes.ok
    /\ Len(pair[dlRes.self].timestamps) = 2
    /\ Len(pair[dlRes.other].timestamps) = 2
    /\ EarlierOperand = pair[dlRes.other].timestamps
    /\ sum_time_intervals(pair[dlRes.self]) > 0
    /\ sum_time_intervals(pair[dlRes.other]) > 0
    /\ sum_time_intervals(dlRes.log) = 2

-----------------------------------------------------------------------------
(* Claims about the aggregation strategies and summaries.                  *)

\* Whether day n opens a bucket: every day; a Monday; the first of a month;
\* the first of January.
OpensBucket(aggregate, n) ==
    CASE aggregate = "day" -> TRUE
      [] aggregate = "week" -> n % 7 = 1
      [] aggregate = "month" -> ymd(n).day = 1
      [] aggregate = "year" -> ymd(n).day = 1 /\ ymd(n).month = 1

\* The first day after d that opens a bucket.
NextBucket(aggregate, d) ==
    CHOOSE n \in (d + 1)..(d + 366) :
        /\ OpensBucket(aggregate, n)
        /\ \A k \in (d + 1)..(n - 1) : ~OpensBucket(aggregate, k)

\* The bucket floor of the i-th DayLog of the summarized record, and whether
\* it lies in the summarized range.
FloorOf(i) == floor(sumIn.aggregate, fromisoformat(sumIn.sheet.record[i].key))
InRange(i) == sumIn.start_date <= FloorOf(i) /\ FloorOf(i) < sumIn.end_date

InRangeFloors == {FloorOf(i) : i \in {j \in 1..Len(sumIn.sheet.record) : InRange(j)}}
SummaryKeys == {sumOut.summary[i].key : i \in 1..Len(sumOut.summary)}

\* The days from the smallest to the largest of a set of floors that open a
\* bucket.
BucketsAcross(aggregate, floors) ==
    {n \in SetMin(floors)..SetMax(floors) : OpensBucket(aggregate, n)}

\* C8: the keys of the summary are exactly the formatted bucket floors from
\* the smallest to the largest floor of the in-range DayLogs; a bucket no
\* DayLog falls in has value 0; the summary is empty when no DayLog is in range.
C8_SummaryKeys ==
    sumOut.done =>
        /\ Len(sumOut.summary) = Cardinality(SummaryKeys)
        /\ IF InRangeFloors = {} THEN sumOut.summary = <<>>
           ELSE SummaryKeys = {strftime(sumIn.aggregate, f) :
                                 f \in BucketsAcross(sumIn.aggregate, InRangeFloors)}
        /\ \A i \in 1..Len(sumOut.summary) :
            (\A f \in InRangeFloors : strftime(sumIn.aggregate, f) # sumOut.summary[i].key)
                => sumOut.summary[i].value = 0

\* A weekly summary holds a week no DayLog of the record falls in, between two
\* weeks that have DayLogs.
C8_Witness ==
    /\ sumOut.done
    /\ sumIn.aggregate = "week"
    /\ Cardinality(InRangeFloors) > 1
    /\ \E i \in 1..Len(sumOut.summary) :
        \A f \in InRangeFloors : strftime(sumIn.aggregate, f) # sumOut.summary[i].key

\* The hours of the in-range DayLogs of the record whose floor formats to key.
HoursUnder(key) ==
    SumSeq([i \in 1..Len(sumIn.sheet.record) |->
                IF InRange(i) /\ strftime(sumIn.aggregate, FloorOf(i)) = key
                THEN sum_time_intervals(sumIn.sheet.record[i].log)
                ELSE 0])

OwnDateInRange(i) ==
    /\ sumIn.start_date <= fromisoformat(sumIn.sheet.record[i].key)
    /\ fromisoformat(sumIn.sheet.record[i].key) < sumIn.end_date

\* The hours of the DayLogs of the record dated in the range whose bucket
\* floor formats to key.
OwnHoursUnder(key) ==
    SumSeq([i \in 1..Len(sumIn.sheet.record) |->
                IF OwnDateInRange(i) /\ strftime(sumIn.aggregate, FloorOf(i)) = key
                THEN sum_time_intervals(sumIn.sheet.record[i].log)
                ELSE 0])

\* C26: for every aggregate, every DayLog whose own date d has
\* start_date <= d < end_date is counted: the summary has the bucket that
\* contains d, and the bucket's total includes the hours of the DayLogs dated
\* in the range that fall in it.
C26_OwnDateCounted ==
    sumOut.done =>
        \A i \in 1..Len(sumIn.sheet.record) :
            OwnDateInRange(i) =>
                \E k \in 1..Len(sumOut.summary) :
                    /\ sumOut.summary[k].key = strftime(sumIn.aggregate, FloorOf(i))
                    /\ sumOut.summary[k].value >= OwnHoursUnder(sumOut.summary[k].key)

\* C10: for each strategy and every date d, increment(d) is the floor of the
\* bucket right after d's: the next day, the Monday after d's week, the first
\* of the next month, the first of January of the next year; and
\* increment(floor(d)) equals increment(d).
C10_IncrementIsNextFloor ==
    /\ aggOut.op = "increment" => aggOut.value = NextBucket(aggIn.aggregate, aggIn.date)
    /\ aggOut.op = "increment_floor" =>
        aggOut.value = increment(aggIn.aggregate, aggIn.date)

\* increment has been applied by the month strategy to a day of December
\* other than the first.
C10_Witness ==
    /\ aggOut.op = "increment"
    /\ aggIn.aggregate = "month"
    /\ date_month(aggIn.date) = 12
    /\ date_day(aggIn.date) > 1
    /\ aggOut.value = date(date_year(aggIn.date) + 1, 1, 1)

\* The last day up to d that opens a bucket.
BucketStart(aggregate, d) ==
    CHOOSE n \in (d - 366)..d :
        /\ OpensBucket(aggregate, n)
        /\ \A k \in (n + 1)..d : ~OpensBucket(aggregate, k)

\* C11: for each strategy and every date d, floor(d) <= d, floor(floor(d))
\* equals floor(d), and floor(d) is the first day of d's bucket: d itself, the
\* Monday at most 6 days before d, the first of d's month, the first of
\* January of d's year.
C11_FloorIsBucketStart ==
    /\ aggOut.op = "floor" =>
        /\ aggOut.value <= aggIn.date
        /\ aggOut.value = BucketStart(aggIn.aggregate, aggIn.date)
        /\ aggIn.aggregate = "week" =>
            /\ weekday(aggOut.value) = 0
            /\ aggIn.date - aggOut.value \in 0..6
    /\ aggOut.op = "floor_floor" => aggOut.value = floor(aggIn.aggregate, aggIn.date)

\* floor has been applied by the week strategy to a Sunday, and gave the
\* Monday six days before.
C11_Witness ==
    /\ aggOut.op = "floor"
    /\ aggIn.aggregate = "week"
    /\ iso_weekday(aggIn.date) = 7
    /\ aggOut.value = aggIn.date - 6

\* C12: for each strategy and every date d, decrement(d) is the floor of the
\* bucket right before d's, so that increment(decrement(d)) equals floor(d);
\* for the month strategy it is the first of the month before d's, January
\* going to the first of December of the year before.
C12_DecrementIsPreviousFloor ==
    aggOut.op = "decrement" =>
        /\ aggOut.value = BucketStart(aggIn.aggregate, floor(aggIn.aggregate, aggIn.date) - 1)
        /\ increment(aggIn.aggregate, aggOut.value) = floor(aggIn.aggregate, aggIn.date)

\* C22: once write_csv_summary has written, whatever the aggregate, the record
\* and the range (a range selecting no DayLog included), the header is date,
\* the aggregate's component names in order, hours; there is one data row
\* per bucket of the summary, in summary order; the row's first field is the
\* bucket's key, its last the bucket's value, and the fields between are the
\* key split on the separator.
CsvRowOf(item) ==
    <<item.key>> \o split(item.key, separator(sumIn.aggregate)) \o <<item.value>>

CsvExpected(data) ==
    [header |-> <<"date">> \o components(sumIn.aggregate) \o <<"hours">>,
     rows |-> [k \in 1..Len(data) |-> CsvRowOf(data[k])]]

C22_CsvSummary ==
    sumOut.written =>
        sumOut.csv = CsvExpected(summarize(sumIn.sheet, sumIn.start_date, sumIn.end_date,
                                           sumIn.aggregate))

\* What holds at every step of sum_DayLogs: increment moves every date of the
\* scenario's days forward; in the loop cur_date is a bucket floor from the
\* smallest to the largest in-range floor and never beyond it; once the loop
\* is left cur_date is the largest in-range floor; with no DayLog in range
\* the loop takes no turn; and the summary returned is that of sum_DayLogs.
WalkSafe ==
    /\ \A d \in SumDays[1]..SumDays[Len(SumDays)] : increment(sumIn.aggregate, d) > d
    /\ sumOut.pc = "fill" =>
        /\ InRangeFloors # {}
        /\ sumOut.min_date = SetMin(InRangeFloors)
        /\ sumOut.max_date = SetMax(InRangeFloors)
        /\ sumOut.min_date <= sumOut.cur_date /\ sumOut.cur_date <= sumOut.max_date
        /\ floor(sumIn.aggregate, sumOut.cur_date) = sumOut.cur_date
        /\ sumOut.steps <= sumOut.cur_date - sumOut.min_date
    /\ (sumOut.pc \in {"sort", "done"} /\ InRangeFloors # {}) =>
        sumOut.cur_date = SetMax(InRangeFloors)
    /\ InRangeFloors = {} => sumOut.steps = 0 /\ sumOut.pc # "fill"
    /\ sumOut.pc = "done" =>
        Returned_summary = sum_DayLogs(sumIn.sheet.record, sumIn.start_date, sumIn.end_date,
                                       sumIn.aggregate)

\* C30: sum_DayLogs always terminates. increment(d) is later than d for each
\* aggregate; the backfill walk goes from the smallest in-range bucket floor
\* to the largest by repeated increment, never beyond it, and ends there; it
\* takes no turn when no DayLog is in range; and every run comes to its return.
C30_WalkTerminates == []WalkSafe /\ <>(sumOut.pc = "done")

\* A monthly backfill has walked from December over the turn of the year to
\* February and returned.
C30_Witness ==
    /\ sumOut.pc = "done"
    /\ sumIn.aggregate = "month"
    /\ sumOut.steps = 2
    /\ sumOut.cur_date = date(2021, 2, 1)
    /\ Len(sumOut.out) = 3

-----------------------------------------------------------------------------
(* Claims about DayLog construction and concatenation.                     *)

\* A list of timestamps is strictly ascending by time of day.
Ascending(ts) == \A i \in 1..(Len(ts) - 1) : ts[i].time < ts[i + 1].time

\* The times of day of a list of timestamps, as DiffTimes.
TimesOfDay(ts) == [i \in 1..Len(ts) |-> [day |-> DummyDay, time |-> ts[i].time]]

\* The latest time of day a non-empty log holds.
Latest(log) == MaxStamp(log.timestamps).time

\* C13: concat_timestamps(new), new non-empty and strictly ascending, succeeds
\* exactly when the log is empty or new[0] is later than the log's latest
\* timestamp, and the timestamps are then old ++ new; when new is not strictly
\* ascending or new[0] is not later than the latest timestamp the call raises
\* and the timestamps are unchanged.
C13_ConcatAppendsLaterTimestamps ==
    (dlRes.op = "concat" /\ dlRes.arg # <<>>) =>
        IF /\ Ascending(dlRes.arg)
           /\ (dlRes.pre.timestamps = <<>> \/ dlRes.arg[1].time > Latest(dlRes.pre))
        THEN /\ dlRes.ok
             /\ daylog.timestamps = dlRes.pre.timestamps \o TimesOfDay(dlRes.arg)
        ELSE /\ ~dlRes.ok
             /\ daylog.timestamps = dlRes.pre.timestamps

\* C14: concat_timestamps([]) on a non-empty log leaves its timestamps as they
\* were.
C14_ConcatEmptyIsNoOp ==
    (dlRes.op = "concat" /\ dlRes.arg = <<>> /\ dlRes.pre.timestamps # <<>>) =>
        daylog.timestamps = dlRes.pre.timestamps

C16_ConstructorValidates ==
    dlRes.op = "init" =>
        IF Ascending(dlRes.arg)
        THEN /\ dlRes.ok
             /\ daylog.timestamps = TimesOfDay(dlRes.arg)
        ELSE /\ ~dlRes.ok
             /\ daylog = dlRes.pre

====
